---------------------------- MODULE Spec2Model ----------------------------
(***************************************************************************)
(* ArbitrageEdge (src/api.js): the arbitrage engine                        *)
(*   calculate2WayArbitrage, calculate3WayArbitrage, calculateStakeAmounts,*)
(*   findArbitrageOpportunities                                            *)
(* and the caching front of it                                             *)
(*   isCacheValid, scrapeOddsForSport, getOpportunities,                   *)
(*   generateMockOpportunities.                                            *)
(*                                                                         *)
(* Numbers.  The code computes in IEEE-754 doubles and prints with         *)
(* toFixed(2).  Here every decimal quantity is an integer count of         *)
(* hundredths: odds 2.10 is 210, a stake percentage 48.15 is 4815, an      *)
(* amount of 24.08 dollars is 2408, a profit of 1.11 % is 111.  Total      *)
(* stakes are whole dollars.  1/odds sums are compared as exact fractions, *)
(* and toFixed(2) is rounding to the nearest hundredth, halves up, EXCEPT  *)
(* on the inputs listed in ShortSum2, ShortSum3, StakeHalfBelow,           *)
(* ReturnHalfBelow and ProfitHalfBelow, where the double the code computes *)
(* lies on the other side of the decimal boundary than the exact value.    *)
(* Those lists are complete for the odds, stakes and thresholds drawn      *)
(* below (OddsValues1, OddsValues2, DrawValues, Stakes).                   *)
(***************************************************************************)
EXTENDS Integers, Sequences, FiniteSets, TLC

VARIABLES
    matches,    \* the Match list handed to findArbitrageOpportunities
    call,       \* the arguments of the last engine call
    result,     \* what the last engine call returned
    games,      \* the games the odds API currently lists
    cache,      \* cache.data: sport -> {opportunities, timestamp}
    now,        \* Date.now(): half minutes where the cache reads it, else ticks
    pending,    \* getOpportunities calls in progress or not yet taken by the caller
    nreq,       \* getOpportunities calls made so far
    resp,       \* what the last completed getOpportunities call resolved to
    log,        \* the engine calls made so far, each with what it returned
    http        \* the HTTP requests in the middleware chain, in arrival order,
                \* and their responses

engineVars == <<matches, call, result>>
serverVars == <<games, cache, now, pending, nreq, resp>>
routeVars == <<log, http>>
vars == <<matches, call, result, games, cache, now, pending, nreq, resp, log, http>>

---------------------------------------------------------------------------
(* Bounds and input domains *)

MaxQuotes == 2      \* quotes (bookmakers) per match
MaxMatches == 2     \* matches per list

\* decimal odds, in hundredths, that a bookmaker may quote per slot
OddsValues1 == {104, 210, 225}
OddsValues2 == {180, 195, 420, 2600, 2601}
\* draw_odds: null (line 272) or a price
NullPrice == 0
DrawValues == {NullPrice, 350}

\* bookmaker.title of the i-th bookmaker of a game (line 269)
BookmakerNames == <<"BookA", "BookB", "BookC", "BookD">>

\* parseFloat of a string that holds no number: a value outside the numbers,
\* for which every comparison is false
NaN == -999999

\* x >= y, x > y and truthiness (if (x)) of JavaScript numbers
GreaterOrEqual(x, y) == x # NaN /\ y # NaN /\ x >= y
GreaterThan(x, y) == x # NaN /\ y # NaN /\ x > y
Truthy(x) == x # NaN /\ x # 0

\* min_profit thresholds (hundredths of a percent) and total stakes (dollars)
MinProfits == {0, 111, 200}
Stakes == {50, 100, 200}

Quotes(i) ==
    [bookmaker : {BookmakerNames[i]}, odds1 : OddsValues1,
     odds2 : OddsValues2, draw_odds : DrawValues]

\* quote lists of length n whose i-th quote comes from the i-th bookmaker
RECURSIVE QuoteListsOfLen(_)
QuoteListsOfLen(n) ==
    IF n = 0 THEN {<<>>}
    ELSE {Append(l, q) : l \in QuoteListsOfLen(n - 1), q \in Quotes(n)}

QuoteLists == UNION {QuoteListsOfLen(n) : n \in 0..MaxQuotes}

---------------------------------------------------------------------------
(* Arithmetic *)

\* n/d rounded to the nearest integer, halves up (n >= 0, d > 0)
RoundHalfUp(n, d) == (2 * n + d) \div (2 * d)

\* k * n / d rounded to the nearest integer, halves up, without forming k*n
\* when it would not fit: k*(n \div d) + round(k*(n % d)/d)
MulDivRound(k, n, d) == k * (n \div d) + RoundHalfUp(k * (n % d), d)

\* Best prices <<odds1, odds2>> on which the doubles 1/odds1 + 1/odds2 add up
\* to 0.9999999999999999 although the exact sum is 1
ShortSum2 == {<<104, 2600>>}

\* Best prices <<odds1, odds2, draw>> on which the doubles
\* 1/odds1 + 1/odds2 + 1/draw add up to 0.9999999999999999 although the
\* exact sum is 1
ShortSum3 == {<<210, 420, 350>>}

\* totalImpliedProb < 1.0 as the code evaluates it (lines 134-138); a slot
\* still at 0 gives 1/0 = Infinity
TotalBelowOne2(a, b) ==
    /\ a > 0
    /\ b > 0
    /\ \/ 100 * (a + b) < a * b
       \/ <<a, b>> \in ShortSum2

\* lines 167-172
TotalBelowOne3(a, b, d) ==
    /\ a > 0 /\ b > 0 /\ d > 0
    /\ \/ 100 * (a * b + a * d + b * d) < a * b * d
       \/ <<a, b, d>> \in ShortSum3

---------------------------------------------------------------------------
(* ARBITRAGE CALCULATOR *)

NullResult == [exists |-> FALSE]
NoBest == [odds |-> 0, bookmaker |-> "null"]

\* the price a quote carries for a slot
SlotPrice(odd, slot) ==
    CASE slot = "odds1" -> odd.odds1
      [] slot = "odds2" -> odd.odds2
      [] slot = "draw" -> odd.draw_odds

\* a slip in the comparison: >= for >, so that a later quote at the same
\* price replaces the earlier one
RECURSIVE BestPrice_lastWins(_, _)
BestPrice_lastWins(odds, slot) ==
    IF odds = <<>> THEN NoBest
    ELSE LET n == Len(odds)
             before == BestPrice_lastWins(SubSeq(odds, 1, n - 1), slot)
             odd == odds[n]
         IN IF SlotPrice(odd, slot) # NullPrice /\ SlotPrice(odd, slot) >= before.odds
            THEN [odds |-> SlotPrice(odd, slot), bookmaker |-> odd.bookmaker]
            ELSE before

\* The for-loop of both calculators, for one slot: a quote replaces the
\* running best only if its price is strictly higher (the draw test
\* `odd.draw_odds &&` skips null, which 0 > best already does).
RECURSIVE BestPrice(_, _)
BestPrice(odds, slot) ==
    IF odds = <<>> THEN NoBest
    ELSE LET n == Len(odds)
             before == BestPrice(SubSeq(odds, 1, n - 1), slot)
             odd == odds[n]
         IN IF SlotPrice(odd, slot) # NullPrice /\ SlotPrice(odd, slot) > before.odds
            THEN [odds |-> SlotPrice(odd, slot), bookmaker |-> odd.bookmaker]
            ELSE before

\* a slip in the profit formula: (1 - T) * 100 instead of (1/T - 1) * 100
TwoWayResult_margin(bestOdds1, bestOdds2) ==
    LET a == bestOdds1.odds
        b == bestOdds2.odds
    IN [exists |-> TRUE,
        profit_percentage |-> RoundHalfUp(100 * a * b - 10000 * (a + b), (a * b) \div 100),
        bets |-> <<
          [outcome |-> "team1", bookmaker |-> bestOdds1.bookmaker, odds |-> a,
           stake_pct |-> RoundHalfUp(10000 * b, a + b)],
          [outcome |-> "team2", bookmaker |-> bestOdds2.bookmaker, odds |-> b,
           stake_pct |-> RoundHalfUp(10000 * a, a + b)] >>]

\* a slip in the stake shares: cut to 2 decimals (Math.floor) instead of
\* rounded
TwoWayResult_floorPct(bestOdds1, bestOdds2) ==
    LET a == bestOdds1.odds
        b == bestOdds2.odds
    IN [exists |-> TRUE,
        profit_percentage |-> RoundHalfUp(100 * a * b - 10000 * (a + b), a + b),
        bets |-> <<
          [outcome |-> "team1", bookmaker |-> bestOdds1.bookmaker, odds |-> a,
           stake_pct |-> (10000 * b) \div (a + b)],
          [outcome |-> "team2", bookmaker |-> bestOdds2.bookmaker, odds |-> b,
           stake_pct |-> (10000 * a) \div (a + b)] >>]

\* lines 140-151: the result record, from the best prices
TwoWayResult(bestOdds1, bestOdds2) ==
    LET a == bestOdds1.odds
        b == bestOdds2.odds
    IN [exists |-> TRUE,
        \* ((1/T) - 1) * 100 with 1/T = ab/(100(a+b))
        profit_percentage |-> RoundHalfUp(100 * a * b - 10000 * (a + b), a + b),
        bets |-> <<
          \* (impliedProb1 / T) * 100 = 100 b/(a+b)
          [outcome |-> "team1", bookmaker |-> bestOdds1.bookmaker, odds |-> a,
           stake_pct |-> RoundHalfUp(10000 * b, a + b)],
          [outcome |-> "team2", bookmaker |-> bestOdds2.bookmaker, odds |-> b,
           stake_pct |-> RoundHalfUp(10000 * a, a + b)] >>]

calculate2WayArbitrage(odds) ==
    LET bestOdds1 == BestPrice(odds, "odds1")
        bestOdds2 == BestPrice(odds, "odds2")
    IN IF ~TotalBelowOne2(bestOdds1.odds, bestOdds2.odds) THEN NullResult
       ELSE TwoWayResult(bestOdds1, bestOdds2)

\* a slip in the profit: cut to 2 decimals (Math.floor) instead of rounded
ThreeWayResult_floorProfit(bestOdds1, bestOdds2, bestDraw) ==
    LET a == bestOdds1.odds
        b == bestOdds2.odds
        d == bestDraw.odds
        s == a * b + a * d + b * d
    IN [exists |-> TRUE,
        profit_percentage |->
          100 * ((a * b * d) \div s) + (100 * ((a * b * d) % s)) \div s - 10000,
        bets |-> <<
          [outcome |-> "team1", bookmaker |-> bestOdds1.bookmaker, odds |-> a,
           stake_pct |-> MulDivRound(100, 100 * b * d, s)],
          [outcome |-> "Draw", bookmaker |-> bestDraw.bookmaker, odds |-> d,
           stake_pct |-> MulDivRound(100, 100 * a * b, s)],
          [outcome |-> "team2", bookmaker |-> bestOdds2.bookmaker, odds |-> b,
           stake_pct |-> MulDivRound(100, 100 * a * d, s)] >>]

\* lines 174-187: the result record, from the best prices
ThreeWayResult(bestOdds1, bestOdds2, bestDraw) ==
    LET a == bestOdds1.odds
        b == bestOdds2.odds
        d == bestDraw.odds
        s == a * b + a * d + b * d
    IN [exists |-> TRUE,
        \* 1/T = abd/(100 s)
        profit_percentage |-> MulDivRound(100, a * b * d, s) - 10000,
        bets |-> <<
          [outcome |-> "team1", bookmaker |-> bestOdds1.bookmaker, odds |-> a,
           stake_pct |-> MulDivRound(100, 100 * b * d, s)],
          [outcome |-> "Draw", bookmaker |-> bestDraw.bookmaker, odds |-> d,
           stake_pct |-> MulDivRound(100, 100 * a * b, s)],
          [outcome |-> "team2", bookmaker |-> bestOdds2.bookmaker, odds |-> b,
           stake_pct |-> MulDivRound(100, 100 * a * d, s)] >>]

\* a slip in the negative answer: a market without a draw price gets a
\* record without bets instead of null
calculate3WayArbitrage_partial(odds) ==
    LET bestOdds1 == BestPrice(odds, "odds1")
        bestOdds2 == BestPrice(odds, "odds2")
        bestDraw == BestPrice(odds, "draw")
    IN IF bestOdds1.odds = 0 \/ bestOdds2.odds = 0 THEN NullResult
       ELSE IF bestDraw.odds = 0
            THEN [exists |-> TRUE, profit_percentage |-> 0, bets |-> <<>>]
       ELSE IF ~TotalBelowOne3(bestOdds1.odds, bestOdds2.odds, bestDraw.odds)
            THEN NullResult
       ELSE ThreeWayResult(bestOdds1, bestOdds2, bestDraw)

\* a slip in the draw slot: a market without a draw price is evaluated on its
\* two other slots (impliedProbDraw taken as 0)
calculate3WayArbitrage_skipDraw(odds) ==
    LET bestOdds1 == BestPrice(odds, "odds1")
        bestOdds2 == BestPrice(odds, "odds2")
        bestDraw == BestPrice(odds, "draw")
    IN IF bestOdds1.odds = 0 \/ bestOdds2.odds = 0 THEN NullResult
       ELSE IF bestDraw.odds = 0
            THEN IF TotalBelowOne2(bestOdds1.odds, bestOdds2.odds)
                 THEN TwoWayResult(bestOdds1, bestOdds2) ELSE NullResult
       ELSE IF ~TotalBelowOne3(bestOdds1.odds, bestOdds2.odds, bestDraw.odds)
            THEN NullResult
       ELSE ThreeWayResult(bestOdds1, bestOdds2, bestDraw)

calculate3WayArbitrage(odds) ==
    LET bestOdds1 == BestPrice(odds, "odds1")
        bestOdds2 == BestPrice(odds, "odds2")
        bestDraw == BestPrice(odds, "draw")
    IN IF bestOdds1.odds = 0 \/ bestOdds2.odds = 0 \/ bestDraw.odds = 0
       THEN NullResult
       ELSE IF ~TotalBelowOne3(bestOdds1.odds, bestOdds2.odds, bestDraw.odds)
            THEN NullResult
       ELSE ThreeWayResult(bestOdds1, bestOdds2, bestDraw)

---------------------------------------------------------------------------
(* Stake amounts *)

\* <<totalStake, stake_pct>> on which the double totalStake * stake_pct / 100
\* lies just below a half cent that the exact product hits
StakeHalfBelow ==
    {<<50, 481>>, <<50, 747>>, <<50, 2381>>, <<50, 2459>>, <<50, 3333>>,
     <<50, 4643>>, <<50, 4815>>}

\* <<totalStake, stake_pct, odds>> on which the double
\* totalStake * stake_pct / 100 * odds lies just below a half cent that the
\* exact product hits
ReturnHalfBelow ==
    {<<100, 3717, 350>>, <<100, 4590, 225>>, <<100, 4815, 210>>, <<100, 5782, 225>>}

\* <<stake, profit_percentage>> on which the double
\* stake * profit_percentage / 100 lies just below a half cent that the exact
\* product hits
ProfitHalfBelow == {<<50, 2495>>, <<50, 3011>>, <<50, 4651>>}

\* parseFloat((totalStake * bet.stake_pct / 100).toFixed(2)), in cents
StakeAmount(totalStake, stake_pct) ==
    IF <<totalStake, stake_pct>> \in StakeHalfBelow
    THEN (totalStake * stake_pct) \div 100
    ELSE RoundHalfUp(totalStake * stake_pct, 100)

\* parseFloat((totalStake * bet.stake_pct / 100 * bet.odds).toFixed(2)), in
\* cents: computed from the unrounded stake
PotentialReturn(totalStake, stake_pct, odds) ==
    IF <<totalStake, stake_pct, odds>> \in ReturnHalfBelow
    THEN (totalStake * stake_pct * odds) \div 10000
    ELSE RoundHalfUp(totalStake * stake_pct * odds, 10000)

\* (stake * profit_percentage / 100).toFixed(2), in cents
GuaranteedProfit(stake, profit_percentage) ==
    IF <<stake, profit_percentage>> \in ProfitHalfBelow
    THEN (stake * profit_percentage) \div 100
    ELSE RoundHalfUp(stake * profit_percentage, 100)

\* a slip in the stake: the percentage cut to whole percent (parseInt for
\* parseFloat) before the amount is taken
WithAmounts_wholePct(bet, totalStake) ==
    [outcome |-> bet.outcome, bookmaker |-> bet.bookmaker, odds |-> bet.odds,
     stake_pct |-> bet.stake_pct,
     stake_amount |-> StakeAmount(totalStake, 100 * (bet.stake_pct \div 100)),
     potential_return |-> PotentialReturn(totalStake, bet.stake_pct, bet.odds)]

\* one bet with its amounts added ({...bet, stake_amount, potential_return})
WithAmounts(bet, totalStake) ==
    [outcome |-> bet.outcome, bookmaker |-> bet.bookmaker, odds |-> bet.odds,
     stake_pct |-> bet.stake_pct,
     stake_amount |-> StakeAmount(totalStake, bet.stake_pct),
     potential_return |-> PotentialReturn(totalStake, bet.stake_pct, bet.odds)]

calculateStakeAmounts(arbitrage, totalStake) ==
    [k \in 1..Len(arbitrage.bets) |-> WithAmounts(arbitrage.bets[k], totalStake)]

\* The one expression of the calculators that can throw is odds[0].team1 in
\* the return statement (lines 148-149, 183-185): a TypeError when the list
\* is empty.  It is reached when the null tests before it pass.
calculate2WayThrows(odds) ==
    /\ TotalBelowOne2(BestPrice(odds, "odds1").odds, BestPrice(odds, "odds2").odds)
    /\ odds = <<>>

calculate3WayThrows(odds) ==
    /\ BestPrice(odds, "odds1").odds # 0
    /\ BestPrice(odds, "odds2").odds # 0
    /\ BestPrice(odds, "draw").odds # 0
    /\ TotalBelowOne3(BestPrice(odds, "odds1").odds, BestPrice(odds, "odds2").odds,
                      BestPrice(odds, "draw").odds)
    /\ odds = <<>>

---------------------------------------------------------------------------
(* findArbitrageOpportunities *)

\* a slip in the dispatch: the 3-way calculator for every match that has a
\* draw price, whatever its flag
Evaluate_byQuotes(match) ==
    IF \E k \in 1..Len(match.odds) : match.odds[k].draw_odds # NullPrice
    THEN calculate3WayArbitrage(match.odds)
    ELSE calculate2WayArbitrage(match.odds)

\* the calculator the match's has_draw flag selects (lines 305-307)
Evaluate(match) ==
    IF match.has_draw THEN calculate3WayArbitrage(match.odds)
    ELSE calculate2WayArbitrage(match.odds)

\* a slip in the record: the calculator's bets pushed as they are, without
\* calculateStakeAmounts
Opportunity_plainBets(match, arbitrage, stake) ==
    [match |-> match.name,
     profit_percentage |-> arbitrage.profit_percentage,
     total_stake |-> stake,
     guaranteed_profit |-> GuaranteedProfit(stake, arbitrage.profit_percentage),
     bets |-> arbitrage.bets]

\* the record pushed for a match that passed the test (lines 313-326)
Opportunity(match, arbitrage, stake) ==
    [match |-> match.name,
     profit_percentage |-> arbitrage.profit_percentage,
     total_stake |-> stake,
     guaranteed_profit |-> GuaranteedProfit(stake, arbitrage.profit_percentage),
     bets |-> calculateStakeAmounts(arbitrage, stake)]

\* the for-loop over the matches (lines 304-328), in input order
RECURSIVE Collect(_, _, _)
Collect(ms, minProfit, stake) ==
    IF ms = <<>> THEN <<>>
    ELSE LET n == Len(ms)
             before == Collect(SubSeq(ms, 1, n - 1), minProfit, stake)
             arbitrage == Evaluate(ms[n])
         IN IF arbitrage.exists
               /\ GreaterOrEqual(arbitrage.profit_percentage, minProfit)
            THEN Append(before, Opportunity(ms[n], arbitrage, stake))
            ELSE before

\* Array.prototype.sort with (a, b) => b.profit_percentage - a.profit_percentage:
\* descending, stable (equal profits keep their order)
RECURSIVE InsertByProfit(_, _)
InsertByProfit(sorted, opp) ==
    IF sorted = <<>> THEN <<opp>>
    ELSE LET n == Len(sorted)
         IN IF sorted[n].profit_percentage >= opp.profit_percentage
            THEN Append(sorted, opp)
            ELSE Append(InsertByProfit(SubSeq(sorted, 1, n - 1), opp), sorted[n])

RECURSIVE SortByProfit(_)
SortByProfit(opps) ==
    IF opps = <<>> THEN <<>>
    ELSE LET n == Len(opps)
         IN InsertByProfit(SortByProfit(SubSeq(opps, 1, n - 1)), opps[n])

findArbitrageOpportunities(ms, minProfit, stake) ==
    SortByProfit(Collect(ms, minProfit, stake))

---------------------------------------------------------------------------
(* Inputs *)

\* match_name of the i-th game of a list
MatchNames == <<"game1", "game2", "game3", "game4">>

Match(i, has_draw, odds) ==
    [name |-> MatchNames[i], has_draw |-> has_draw, odds |-> odds]

\* a few games for the longer lists
FeedOdds ==
    {<< [bookmaker |-> "BookA", odds1 |-> 210, odds2 |-> 180, draw_odds |-> NullPrice],
        [bookmaker |-> "BookB", odds1 |-> 104, odds2 |-> 195, draw_odds |-> NullPrice] >>,
     << [bookmaker |-> "BookA", odds1 |-> 104, odds2 |-> 2601, draw_odds |-> 350],
        [bookmaker |-> "BookB", odds1 |-> 210, odds2 |-> 195, draw_odds |-> 350] >>,
     << [bookmaker |-> "BookA", odds1 |-> 104, odds2 |-> 2601, draw_odds |-> 350],
        [bookmaker |-> "BookB", odds1 |-> 104, odds2 |-> 420, draw_odds |-> NullPrice] >>,
     << [bookmaker |-> "BookA", odds1 |-> 104, odds2 |-> 195, draw_odds |-> 350],
        [bookmaker |-> "BookB", odds1 |-> 104, odds2 |-> 420, draw_odds |-> 350] >>}

RECURSIVE ListsOver(_, _)
ListsOver(n, oddsSet) ==
    IF n = 0 THEN {<<>>}
    ELSE {Append(l, Match(n, hd, o)) :
            l \in ListsOver(n - 1, oddsSet), hd \in BOOLEAN, o \in oddsSet}

\* every single match over the quote domain, and lists of up to MaxMatches
\* games
MatchLists ==
    ListsOver(1, QuoteLists) \cup UNION {ListsOver(n, FeedOdds) : n \in 0..MaxMatches}

---------------------------------------------------------------------------
(* Configuration *)

\* SPORTS_CONFIG (lines 30-36): the has_draw flag of each configured sport
SPORTS_CONFIG ==
    [soccer |-> [has_draw |-> TRUE],
     basketball |-> [has_draw |-> FALSE],
     tennis |-> [has_draw |-> FALSE],
     nfl |-> [has_draw |-> FALSE],
     mlb |-> [has_draw |-> FALSE]]

\* the clock of the cache counts half minutes: Date.now() is 30000 times now
TicksPerMinute == 2

\* cache.duration (line 41): 30 * 60 * 1000 ms
CacheDuration == 30 * TicksPerMinute

\* Math.round(age / 1000 / 60) (line 345): the age to the nearest minute, a
\* half rounded up
CacheAgeMinutes(age) == (2 * age + TicksPerMinute) \div (2 * TicksPerMinute)

\* sport strings a caller may pass, and String.prototype.toLowerCase on them
RequestSports == {"Soccer", "basketball", "cricket"}
ToLowerCase(sport) == IF sport = "Soccer" THEN "soccer" ELSE sport

---------------------------------------------------------------------------
(* MOCK DATA GENERATOR *)

\* <<stake, stake_pct>> of the mock data on which the double stake * 0.dddd
\* lies just below a half cent that the exact product hits
MockHalfBelow == {<<50, 2941>>, <<50, 3077>>, <<50, 5405>>}

\* (stake * 0.3226).toFixed(2) and the like, in cents
MockAmount(stake, pct) ==
    IF <<stake, pct>> \in MockHalfBelow
    THEN (stake * pct) \div 100
    ELSE RoundHalfUp(stake * pct, 100)

MockBet(outcome, bookmaker, odds, stake_pct, stake) ==
    [outcome |-> outcome, bookmaker |-> bookmaker, odds |-> odds,
     stake_pct |-> stake_pct, stake_amount |-> MockAmount(stake, stake_pct)]

MockOpp(name, profit_percentage, stake, bets) ==
    [match |-> name, profit_percentage |-> profit_percentage,
     total_stake |-> stake,
     guaranteed_profit |-> MockAmount(stake, profit_percentage),
     bets |-> bets]

\* the `sports` table of generateMockOpportunities (lines 400-449)
MockSoccer(stake) ==
    << MockOpp("Manchester United vs Liverpool", 230, stake,
         << MockBet("Man Utd", "DraftKings", 310, 3226, stake),
            MockBet("Draw", "FanDuel", 340, 2941, stake),
            MockBet("Liverpool", "BetMGM", 260, 3846, stake) >>),
       MockOpp("Barcelona vs Real Madrid", 180, stake,
         << MockBet("Barcelona", "Caesars", 245, 4082, stake),
            MockBet("Draw", "PointsBet", 350, 2857, stake),
            MockBet("Real Madrid", "BetRivers", 325, 3077, stake) >>) >>

MockBasketball(stake) ==
    << MockOpp("Lakers vs Celtics", 210, stake,
         << MockBet("Lakers", "DraftKings", 210, 4762, stake),
            MockBet("Celtics", "FanDuel", 195, 5128, stake) >>) >>

MockTennis(stake) ==
    << MockOpp("Djokovic vs Alcaraz", 150, stake,
         << MockBet("Djokovic", "BetMGM", 185, 5405, stake),
            MockBet("Alcaraz", "Caesars", 220, 4545, stake) >>) >>

MockNfl(stake) ==
    << MockOpp("Chiefs vs Bills", 190, stake,
         << MockBet("Chiefs", "DraftKings", 191, 5236, stake),
            MockBet("Bills", "PointsBet", 205, 4878, stake) >>) >>

MockMlb(stake) ==
    << MockOpp("Yankees vs Red Sox", 250, stake,
         << MockBet("Yankees", "FanDuel", 180, 5556, stake),
            MockBet("Red Sox", "BetRivers", 225, 4444, stake) >>) >>

\* a slip in the filter: kept entries are put in front of the list (unshift
\* for push)
RECURSIVE FilterByProfit_unshift(_, _)
FilterByProfit_unshift(opps, minProfit) ==
    IF opps = <<>> THEN <<>>
    ELSE LET n == Len(opps)
             before == FilterByProfit_unshift(SubSeq(opps, 1, n - 1), minProfit)
         IN IF GreaterOrEqual(opps[n].profit_percentage, minProfit)
            THEN <<opps[n]>> \o before ELSE before

\* opportunities.filter(opp => opp.profit_percentage >= minProfit)
RECURSIVE FilterByProfit(_, _)
FilterByProfit(opps, minProfit) ==
    IF opps = <<>> THEN <<>>
    ELSE LET n == Len(opps)
             before == FilterByProfit(SubSeq(opps, 1, n - 1), minProfit)
         IN IF GreaterOrEqual(opps[n].profit_percentage, minProfit)
            THEN Append(before, opps[n]) ELSE before

\* lines 451-464: the sport's list, or for a sport the table does not have
\* Object.values(sports).flat(), all of them in table order; filtered when
\* minProfit is truthy
generateMockOpportunities(sport, minProfit, stake) ==
    LET opportunities ==
          CASE sport = "soccer" -> MockSoccer(stake)
            [] sport = "basketball" -> MockBasketball(stake)
            [] sport = "tennis" -> MockTennis(stake)
            [] sport = "nfl" -> MockNfl(stake)
            [] sport = "mlb" -> MockMlb(stake)
            [] OTHER -> MockSoccer(stake) \o MockBasketball(stake) \o MockTennis(stake)
                          \o MockNfl(stake) \o MockMlb(stake)
    IN IF Truthy(minProfit) THEN FilterByProfit(opportunities, minProfit)
       ELSE opportunities

---------------------------------------------------------------------------
(* Cache and on-demand scraping *)

NoEntry == [present |-> FALSE]

\* a slip in the comparison: an entry aged exactly cache.duration still counts
isCacheValid_inclusive(sport) ==
    /\ sport \in DOMAIN cache
    /\ cache[sport].present
    /\ now - cache[sport].timestamp <= CacheDuration

\* isCacheValid (lines 205-209)
isCacheValid(sport) ==
    /\ sport \in DOMAIN cache
    /\ cache[sport].present
    /\ now - cache[sport].timestamp < CacheDuration

\* a game of the odds API with its bookmakers' h2h prices
Game(i, odds) == [name |-> MatchNames[i], odds |-> odds]

\* scrapeOddsForSport (lines 214-296): [] for an unknown sport or a failed
\* fetch; else the games with at least 2 bookmakers, flagged with the
\* sport's has_draw
\* a slip in the threshold of line 276: a game with one bookmaker is kept
RECURSIVE ConvertGames_atLeastOne(_, _)
ConvertGames_atLeastOne(gs, has_draw) ==
    IF gs = <<>> THEN <<>>
    ELSE LET n == Len(gs)
             before == ConvertGames_atLeastOne(SubSeq(gs, 1, n - 1), has_draw)
         IN IF Len(gs[n].odds) >= 1
            THEN Append(before, [name |-> gs[n].name, has_draw |-> has_draw,
                                 odds |-> gs[n].odds])
            ELSE before

RECURSIVE ConvertGames(_, _)
ConvertGames(gs, has_draw) ==
    IF gs = <<>> THEN <<>>
    ELSE LET n == Len(gs)
             before == ConvertGames(SubSeq(gs, 1, n - 1), has_draw)
         IN IF Len(gs[n].odds) >= 2
            THEN Append(before, [name |-> gs[n].name, has_draw |-> has_draw,
                                 odds |-> gs[n].odds])
            ELSE before

scrapeOddsForSport(sport, upstream) ==
    IF sport \notin DOMAIN SPORTS_CONFIG THEN <<>>
    ELSE IF ~upstream.ok THEN <<>>
    ELSE ConvertGames(upstream.games, SPORTS_CONFIG[sport].has_draw)

\* a slip in the recalculation: total_stake and guaranteed_profit follow the
\* new stake, the bets stay as cached
Restake_keepBets(opp, stake) ==
    [match |-> opp.match,
     profit_percentage |-> opp.profit_percentage,
     total_stake |-> stake,
     guaranteed_profit |-> GuaranteedProfit(stake, opp.profit_percentage),
     bets |-> opp.bets]

\* a slip in the recalculation: the bets follow the new stake, the
\* guaranteed profit stays as cached for a stake of 100
Restake_keepProfit(opp, stake) ==
    [match |-> opp.match,
     profit_percentage |-> opp.profit_percentage,
     total_stake |-> stake,
     guaranteed_profit |-> opp.guaranteed_profit,
     bets |-> [k \in 1..Len(opp.bets) |-> WithAmounts(opp.bets[k], stake)]]

\* lines 353-364: one cached opportunity re-derived for another stake
Restake(opp, stake) ==
    [match |-> opp.match,
     profit_percentage |-> opp.profit_percentage,
     total_stake |-> stake,
     guaranteed_profit |-> GuaranteedProfit(stake, opp.profit_percentage),
     bets |-> [k \in 1..Len(opp.bets) |-> WithAmounts(opp.bets[k], stake)]]

\* lines 348-364: the cached list, filtered if minProfit > 0 and re-derived
\* if stake !== 100
ServeFromCache(cached, minProfit, stake) ==
    LET filtered == IF GreaterThan(minProfit, 0)
                    THEN FilterByProfit(cached, minProfit)
                    ELSE cached
    IN IF stake # 100 THEN [k \in 1..Len(filtered) |-> Restake(filtered[k], stake)]
       ELSE filtered

---------------------------------------------------------------------------
(* The engine as a state machine: an input list is drawn and one of the     *)
(* engine's functions is applied to it.  The functions are pure: a second   *)
(* call on the same list reaches nothing a first call does not.             *)

NoCall == [fn |-> "none"]
NoResponse == [source |-> "none"]
NoRequest == <<>>    \* no request in the middleware chain

Init ==
    /\ matches \in MatchLists
    /\ call = NoCall
    /\ result = <<>>
    /\ games = <<>>
    /\ cache = [sport \in DOMAIN SPORTS_CONFIG |-> NoEntry]
    /\ now = 0
    /\ pending = {}
    /\ nreq = 0
    /\ resp = NoResponse
    /\ log = <<>>
    /\ http = NoRequest

Calculate2Way(i) ==
    /\ call = NoCall
    /\ call' = [fn |-> "calculate2WayArbitrage", match |-> i]
    /\ result' = calculate2WayArbitrage(matches[i].odds)
    /\ UNCHANGED <<matches, serverVars, routeVars>>

Calculate3Way(i) ==
    /\ call = NoCall
    /\ call' = [fn |-> "calculate3WayArbitrage", match |-> i]
    /\ result' = calculate3WayArbitrage(matches[i].odds)
    /\ UNCHANGED <<matches, serverVars, routeVars>>

Find(minProfit, stake) ==
    /\ call = NoCall
    /\ call' = [fn |-> "findArbitrageOpportunities",
                minProfit |-> minProfit, stake |-> stake]
    /\ result' = findArbitrageOpportunities(matches, minProfit, stake)
    /\ UNCHANGED <<matches, serverVars, routeVars>>

Next ==
    \/ \E i \in 1..Len(matches) : Calculate2Way(i)
    \/ \E i \in 1..Len(matches) : Calculate3Way(i)
    \/ \E minProfit \in MinProfits, stake \in Stakes : Find(minProfit, stake)

Spec == Init /\ [][Next]_vars

---------------------------------------------------------------------------
(* getOpportunities as a state machine: a call checks the cache and either  *)
(* resolves at once or awaits scrapeOddsForSport; the fetch resolves later, *)
(* with whatever the odds API answers then.                                 *)

MaxRequests == 2    \* getOpportunities calls per behaviour
MaxGames == 2       \* games per answer of the odds API

\* instants at which something happens: the start, half a minute before a
\* cache entry of the start expires, and its expiry
Instants == {0, CacheDuration - 1, CacheDuration}

\* (min_profit, stake) of a request: the defaults, or both given
RequestParams ==
    {[minProfit |-> 0, stake |-> 100], [minProfit |-> 200, stake |-> 50]}

GameOdds ==
    {<< [bookmaker |-> "BookA", odds1 |-> 210, odds2 |-> 180, draw_odds |-> NullPrice],
        [bookmaker |-> "BookB", odds1 |-> 104, odds2 |-> 195, draw_odds |-> NullPrice] >>,
     << [bookmaker |-> "BookA", odds1 |-> 104, odds2 |-> 2601, draw_odds |-> 350],
        [bookmaker |-> "BookB", odds1 |-> 210, odds2 |-> 195, draw_odds |-> 350] >>}

RECURSIVE GameLists(_)
GameLists(n) ==
    IF n = 0 THEN {<<>>}
    ELSE {Append(l, Game(n, o)) : l \in GameLists(n - 1), o \in GameOdds}

\* what one fetch resolves to: a failure (non-OK status, an exception, no
\* API key) or the current games
Upstreams == {[ok |-> FALSE], [ok |-> TRUE, games |-> games]}

ServerInit ==
    /\ matches = <<>>
    /\ call = NoCall
    /\ result = <<>>
    /\ games \in UNION {GameLists(n) : n \in 0..MaxGames}
    /\ cache = [sport \in DOMAIN SPORTS_CONFIG |-> NoEntry]
    /\ now = 0
    /\ pending = {}
    /\ nreq = 0
    /\ resp = NoResponse
    /\ log = <<>>
    /\ http = NoRequest

\* time passes
Tick(t) ==
    /\ t > now
    /\ now' = t
    /\ UNCHANGED <<engineVars, games, cache, pending, nreq, resp, routeVars>>

\* getOpportunities up to its first await (lines 339-371): a cache hit
\* resolves the call here
GetStart(sport, minProfit, stake) ==
    LET sportLower == ToLowerCase(sport)
    IN /\ nreq < MaxRequests
       /\ nreq' = nreq + 1
       /\ IF isCacheValid(sportLower)
          THEN /\ resp' = [source |-> "cache", sport |-> sportLower,
                           minProfit |-> minProfit, stake |-> stake,
                           opportunities |->
                             ServeFromCache(cache[sportLower].opportunities,
                                            minProfit, stake),
                           cacheAge |-> CacheAgeMinutes(now - cache[sportLower].timestamp)]
               /\ UNCHANGED pending
          ELSE /\ pending' = pending \cup
                     {[id |-> nreq + 1, sport |-> sportLower,
                       minProfit |-> minProfit, stake |-> stake]}
               /\ UNCHANGED resp
       /\ UNCHANGED <<engineVars, games, cache, now, routeVars>>

\* a slip in the fallback: the mock opportunities are written to the cache
GetFinish_cachesMock(p, upstream) ==
    LET ms == scrapeOddsForSport(p.sport, upstream)
        mockOpps == generateMockOpportunities(p.sport, p.minProfit, p.stake)
    IN /\ p \in pending
       /\ pending' = pending \ {p}
       /\ IF Len(ms) = 0
          THEN /\ resp' = [source |-> "mock", sport |-> p.sport,
                           minProfit |-> p.minProfit, stake |-> p.stake,
                           opportunities |-> mockOpps]
               /\ cache' = [s \in DOMAIN cache |->
                              IF s = p.sport
                              THEN [present |-> TRUE, opportunities |-> mockOpps,
                                    timestamp |-> now]
                              ELSE cache[s]]
          ELSE /\ resp' = [source |-> "live", sport |-> p.sport,
                           minProfit |-> p.minProfit, stake |-> p.stake,
                           matches |-> ms,
                           opportunities |->
                             findArbitrageOpportunities(ms, p.minProfit, p.stake)]
               /\ cache' = [cache EXCEPT ![p.sport] =
                              [present |-> TRUE,
                               opportunities |-> findArbitrageOpportunities(ms, 0, 100),
                               timestamp |-> now]]
       /\ UNCHANGED <<engineVars, games, now, nreq, routeVars>>

\* lines 373-393: what the call p returns and leaves in the cache once its
\* scrape has resolved to the matches ms
AfterScrape(p, ms) ==
    IF Len(ms) = 0
    THEN [resp |-> [source |-> "mock", sport |-> p.sport,
                    minProfit |-> p.minProfit, stake |-> p.stake,
                    opportunities |->
                      generateMockOpportunities(p.sport, p.minProfit, p.stake)],
          cache |-> cache]
    ELSE [resp |-> [source |-> "live", sport |-> p.sport,
                    minProfit |-> p.minProfit, stake |-> p.stake,
                    matches |-> ms,
                    opportunities |->
                      findArbitrageOpportunities(ms, p.minProfit, p.stake)],
          cache |-> [cache EXCEPT ![p.sport] =
                       [present |-> TRUE,
                        opportunities |-> findArbitrageOpportunities(ms, 0, 100),
                        timestamp |-> now]]]

\* getOpportunities after the await (lines 371-393)
GetFinish(p, upstream) ==
    LET got == AfterScrape(p, scrapeOddsForSport(p.sport, upstream))
    IN /\ p \in pending
       /\ pending' = pending \ {p}
       /\ resp' = got.resp
       /\ cache' = got.cache
       /\ UNCHANGED <<engineVars, games, now, nreq, routeVars>>

ServerNext ==
    \/ \E t \in Instants : Tick(t)
    \/ \E sport \in RequestSports, q \in RequestParams :
          GetStart(sport, q.minProfit, q.stake)
    \/ \E p \in pending, upstream \in Upstreams : GetFinish(p, upstream)

ServerSpec == ServerInit /\ [][ServerNext]_vars

---------------------------------------------------------------------------
(* Properties of the engine, checked under Spec.  The reference values are  *)
(* stated independently of the operators above: highest prices by set       *)
(* maximum, 1/odds sums as exact fractions, rounding by its defining        *)
(* inequality.                                                              *)

IsCalc2 == call.fn = "calculate2WayArbitrage"
IsCalc3 == call.fn = "calculate3WayArbitrage"
IsFind == call.fn = "findArbitrageOpportunities"

\* the quote list the last calculator call was given
CalledOdds == matches[call.match].odds

\* the prices quoted for a slot, and the highest of them (0 if there is none)
SlotPrices(odds, slot) ==
    {SlotPrice(odds[k], slot) : k \in 1..Len(odds)} \ {NullPrice}

MaxPrice(odds, slot) ==
    IF SlotPrices(odds, slot) = {} THEN 0
    ELSE CHOOSE p \in SlotPrices(odds, slot) : \A q \in SlotPrices(odds, slot) : q <= p

\* the first bookmaker of the list quoting the slot's highest price
FirstAtMax(odds, slot) ==
    LET k == CHOOSE i \in 1..Len(odds) :
                 /\ SlotPrice(odds[i], slot) = MaxPrice(odds, slot)
                 /\ \A j \in 1..(i - 1) : SlotPrice(odds[j], slot) # MaxPrice(odds, slot)
    IN odds[k].bookmaker

\* 1/a + 1/b < 1 and 1/a + 1/b + 1/d < 1, exactly (odds in hundredths)
SumBelowOne2(a, b) == a > 0 /\ b > 0 /\ 100 * (a + b) < a * b
SumBelowOne3(a, b, d) ==
    a > 0 /\ b > 0 /\ d > 0 /\ 100 * (a * b + a * d + b * d) < a * b * d

\* r is n/d rounded to the nearest integer (d > 0)
IsRounded(r, n, d) == 2 * r * d - 2 * n <= d /\ 2 * n - 2 * r * d <= d

Abs(x) == IF x < 0 THEN -x ELSE x
Max(x, y) == IF x < y THEN y ELSE x

\* C1: calculate2WayArbitrage and calculate3WayArbitrage return a result with
\* exists = true if and only if every required slot has a best price and the
\* sum over the slots of 1/bestOdds is strictly less than 1; at a sum of
\* exactly 1 or more the result is null.
C1_ExistsIffSumBelowOne ==
    /\ IsCalc2 =>
         (result.exists <=>
            SumBelowOne2(MaxPrice(CalledOdds, "odds1"), MaxPrice(CalledOdds, "odds2")))
    /\ IsCalc3 =>
         (result.exists <=>
            SumBelowOne3(MaxPrice(CalledOdds, "odds1"), MaxPrice(CalledOdds, "odds2"),
                         MaxPrice(CalledOdds, "draw")))

\* C2: in every opportunity findArbitrageOpportunities returns, every leg's
\* potential_return is strictly greater than the opportunity's total_stake
\* (both in cents here).
C2_EveryLegReturnsMoreThanStake ==
    IsFind =>
      \A k \in 1..Len(result) : \A j \in 1..Len(result[k].bets) :
          result[k].bets[j].potential_return > 100 * result[k].total_stake

\* stake_amount x odds of a leg, in 1/10000 dollar
Payout(bet) == bet.stake_amount * bet.odds

\* C3, as stated: in every opportunity findArbitrageOpportunities returns,
\* stake_amount x odds of any two legs differ by at most 0.02 (2 legs) or
\* 0.03 (3 legs).
C3_PayoutsWithinFixedTolerance ==
    IsFind =>
      \A k \in 1..Len(result) : \A i, j \in 1..Len(result[k].bets) :
          Abs(Payout(result[k].bets[i]) - Payout(result[k].bets[j]))
            <= 100 * Len(result[k].bets)

\* C3, as the code has it: stake_amount x odds of any two legs differ by at
\* most (0.0001 x total_stake + 0.01) x the larger of the two legs' odds: each
\* leg's stake carries the rounding of stake_pct (0.005 % of the total) and
\* its own rounding to the cent (0.005), and both are multiplied by the odds.
C3_PayoutsWithinRoundingTimesOdds ==
    IsFind =>
      \A k \in 1..Len(result) : \A i, j \in 1..Len(result[k].bets) :
          100 * Abs(Payout(result[k].bets[i]) - Payout(result[k].bets[j]))
            <= (result[k].total_stake + 100)
                 * Max(result[k].bets[i].odds, result[k].bets[j].odds)

\* an opportunity whose legs' payouts are more than 0.03 apart
C3_Witness ==
    /\ IsFind
    /\ \E k \in 1..Len(result) : \E i, j \in 1..Len(result[k].bets) :
          Payout(result[k].bets[i]) - Payout(result[k].bets[j]) > 300

NoDrawPrice(odds) == \A k \in 1..Len(odds) : odds[k].draw_odds = NullPrice

\* C4: a has_draw match in which no quote carries a draw price never yields
\* an opportunity: calculate3WayArbitrage returns null on its quotes and
\* findArbitrageOpportunities emits nothing for it, whatever odds1 and odds2.
C4_NoDrawPriceNoOpportunity ==
    /\ IsCalc3 /\ NoDrawPrice(CalledOdds) => result = NullResult
    /\ IsFind =>
         \A i \in 1..Len(matches) :
            matches[i].has_draw /\ NoDrawPrice(matches[i].odds) =>
               \A k \in 1..Len(result) : result[k].match # matches[i].name

\* calculate3WayArbitrage has returned null on quotes without a draw price
\* whose odds1 and odds2 alone are an arbitrage
C4_Witness ==
    /\ IsCalc3
    /\ NoDrawPrice(CalledOdds)
    /\ SumBelowOne2(MaxPrice(CalledOdds, "odds1"), MaxPrice(CalledOdds, "odds2"))
    /\ result = NullResult

\* the quotes of the example: outcome1 2.10 at BookA, outcome2 1.95 at BookB
ExampleQuotes ==
    << [bookmaker |-> "BookA", odds1 |-> 210, odds2 |-> 180, draw_odds |-> NullPrice],
       [bookmaker |-> "BookB", odds1 |-> 104, odds2 |-> 195, draw_odds |-> NullPrice] >>

\* C5: on outcome1 = 2.10 at BookA and outcome2 = 1.95 at BookB,
\* calculate2WayArbitrage returns exists = true, profit_percentage 1.11 and
\* legs [outcome1 @ BookA 2.10 48.15 %, outcome2 @ BookB 1.95 51.85 %]; and
\* every result it returns is the reference computation: the highest price
\* per slot with the bookmaker quoting it, profit = round((1/T - 1) * 100, 2)
\* and stake_i = round(p_i / T * 100, 2) with p_i = 1/odds_i, T = p_1 + p_2.
C5_TwoWayReference ==
    IsCalc2 =>
      /\ CalledOdds = ExampleQuotes =>
           result = [exists |-> TRUE, profit_percentage |-> 111,
                     bets |-> << [outcome |-> "team1", bookmaker |-> "BookA",
                                  odds |-> 210, stake_pct |-> 4815],
                                 [outcome |-> "team2", bookmaker |-> "BookB",
                                  odds |-> 195, stake_pct |-> 5185] >>]
      /\ result.exists =>
           LET a == MaxPrice(CalledOdds, "odds1")
               b == MaxPrice(CalledOdds, "odds2")
           IN /\ Len(result.bets) = 2
              /\ result.bets[1].outcome = "team1" /\ result.bets[2].outcome = "team2"
              /\ result.bets[1].odds = a /\ result.bets[2].odds = b
              /\ result.bets[1].bookmaker = FirstAtMax(CalledOdds, "odds1")
              /\ result.bets[2].bookmaker = FirstAtMax(CalledOdds, "odds2")
              \* (1/T - 1) * 100 = (ab - 100(a+b)) / (a+b) percent
              /\ IsRounded(result.profit_percentage,
                           100 * a * b - 10000 * (a + b), a + b)
              \* p_1/T * 100 = 100 b/(a+b), p_2/T * 100 = 100 a/(a+b) percent
              /\ IsRounded(result.bets[1].stake_pct, 10000 * b, a + b)
              /\ IsRounded(result.bets[2].stake_pct, 10000 * a, a + b)

\* calculate2WayArbitrage has answered the example
C5_Witness ==
    /\ IsCalc2
    /\ CalledOdds = ExampleQuotes
    /\ result.exists
    /\ result.profit_percentage = 111

\* C6: findArbitrageOpportunities returns an opportunity for a match exactly
\* when the match's calculator result is non-null and its profit_percentage
\* is at least minProfit; at minProfit = 0 every returned opportunity has a
\* strictly positive profit_percentage.
C6_EmittedIffAtLeastMinProfit ==
    IsFind =>
      /\ \A i \in 1..Len(matches) :
            (\E k \in 1..Len(result) : result[k].match = matches[i].name)
              <=> /\ Evaluate(matches[i]).exists
                  /\ Evaluate(matches[i]).profit_percentage >= call.minProfit
      /\ call.minProfit = 0 =>
            \A k \in 1..Len(result) : result[k].profit_percentage > 0

\* C10: each input match contributes exactly one opportunity or none to the
\* output of findArbitrageOpportunities: the output is no longer than the
\* input, no match appears twice, every opportunity is of an input match and
\* has all its 2 or 3 legs, each with stake_amount and potential_return.
C10_OneCompleteOpportunityOrNone ==
    IsFind =>
      /\ Len(result) <= Len(matches)
      /\ \A k, l \in 1..Len(result) : result[k].match = result[l].match => k = l
      /\ \A k \in 1..Len(result) :
            \E i \in 1..Len(matches) :
               /\ matches[i].name = result[k].match
               /\ Len(result[k].bets) = IF matches[i].has_draw THEN 3 ELSE 2
               /\ \A j \in 1..Len(result[k].bets) :
                     /\ {"outcome", "bookmaker", "odds", "stake_pct",
                         "stake_amount", "potential_return"}
                          \subseteq DOMAIN result[k].bets[j]
                     /\ result[k].bets[j].stake_amount >= 0
                     /\ result[k].bets[j].potential_return >= 0

\* findArbitrageOpportunities has returned one opportunity for a list of two
\* matches: one match contributed, the other did not
C10_Witness ==
    /\ IsFind
    /\ Len(matches) = 2
    /\ Len(result) = 1
    /\ Len(result[1].bets) = 3

---------------------------------------------------------------------------
(* Properties of getOpportunities, checked under ServerSpec *)

\* adjacent entries are in non-increasing profit_percentage
OrderedByProfit(opps) ==
    \A k \in 1..(Len(opps) - 1) :
        opps[k].profit_percentage >= opps[k + 1].profit_percentage

\* C7: every list getOpportunities returns (fresh from
\* findArbitrageOpportunities, cached, or the mock fallback) is ordered by
\* profit_percentage, non-increasing.
C7_ListsOrderedByProfit ==
    resp # NoResponse => OrderedByProfit(resp.opportunities)

\* what the call behind the last response returns at another threshold and
\* stake, on the same matches (fresh) or the same cache entry (cache hit)
Recomputed(minProfit, stake) ==
    IF resp.source = "cache"
    THEN ServeFromCache(cache[resp.sport].opportunities, minProfit, stake)
    ELSE findArbitrageOpportunities(resp.matches, minProfit, stake)

SameOpportunity(a, b) ==
    /\ a.match = b.match
    /\ a.profit_percentage = b.profit_percentage
    /\ a.bets = b.bets

\* the entries of s appear in t, in the order they have in s
RECURSIVE IsSubsequence(_, _)
IsSubsequence(s, t) ==
    IF s = <<>> THEN TRUE
    ELSE IF t = <<>> THEN FALSE
    ELSE IF SameOpportunity(Head(s), Head(t)) THEN IsSubsequence(Tail(s), Tail(t))
    ELSE IsSubsequence(s, Tail(t))

\* C8: for the same matches and stake, the opportunities returned at
\* minProfit = X are among those returned at minProfit = 0 (same match,
\* profit_percentage and bets) and in the same relative order, both lists
\* descending by profit_percentage; for findArbitrageOpportunities (fresh
\* responses) and for the cache-hit filter.
C8_ThresholdKeepsSubsetInOrder ==
    resp.source \in {"cache", "live"} =>
      /\ IsSubsequence(resp.opportunities, Recomputed(0, resp.stake))
      /\ OrderedByProfit(resp.opportunities)
      /\ OrderedByProfit(Recomputed(0, resp.stake))

\* a cache hit at min_profit 2.00 has returned an opportunity and left
\* out another that the cache holds
C8_Witness ==
    /\ resp.source = "cache"
    /\ resp.minProfit = 200
    /\ Len(resp.opportunities) >= 1
    /\ Len(resp.opportunities) < Len(Recomputed(0, resp.stake))

\* C9: recomputing at total stake 2S what was returned at S leaves
\* profit_percentage and every leg's stake_pct unchanged and gives
\* stake_amount and guaranteed_profit within 0.01 of double their values at
\* S; for findArbitrageOpportunities (fresh responses) and for the cache-hit
\* recalculation.
C9_StakeScalingLinear ==
    resp.source \in {"cache", "live"} =>
      LET atS == resp.opportunities
          at2S == Recomputed(resp.minProfit, 2 * resp.stake)
      IN /\ Len(at2S) = Len(atS)
         /\ \A k \in 1..Len(atS) :
               /\ at2S[k].match = atS[k].match
               /\ at2S[k].profit_percentage = atS[k].profit_percentage
               /\ atS[k].total_stake = resp.stake
               /\ at2S[k].total_stake = 2 * resp.stake
               /\ Abs(at2S[k].guaranteed_profit - 2 * atS[k].guaranteed_profit) <= 1
               /\ Len(at2S[k].bets) = Len(atS[k].bets)
               /\ \A j \in 1..Len(atS[k].bets) :
                     /\ at2S[k].bets[j].stake_pct = atS[k].bets[j].stake_pct
                     /\ Abs(at2S[k].bets[j].stake_amount
                              - 2 * atS[k].bets[j].stake_amount) <= 1

\* a cache hit has recalculated an opportunity for a stake of 50, and one of
\* its stake amounts is not exactly half the amount at 100
C9_Witness ==
    /\ resp.source = "cache"
    /\ resp.stake = 50
    /\ \E k \in 1..Len(resp.opportunities) :
          \E j \in 1..Len(resp.opportunities[k].bets) :
             Recomputed(resp.minProfit, 100)[k].bets[j].stake_amount
               # 2 * resp.opportunities[k].bets[j].stake_amount

---------------------------------------------------------------------------
(* Further properties of the engine, checked under Spec *)

\* C13: a quote list of exactly one quote never yields a result from
\* calculate2WayArbitrage or calculate3WayArbitrage, whatever its odds.
C13_SingleQuoteNoArbitrage ==
    (IsCalc2 \/ IsCalc3) /\ Len(CalledOdds) = 1 => result = NullResult

\* a calculator result with all its n legs
IsCompleteResult(r, n) ==
    /\ DOMAIN r = {"exists", "profit_percentage", "bets"}
    /\ r.exists
    /\ r.profit_percentage >= 0
    /\ Len(r.bets) = n
    /\ \A j \in 1..n :
          /\ DOMAIN r.bets[j] = {"outcome", "bookmaker", "odds", "stake_pct"}
          /\ r.bets[j].odds > 0
          /\ r.bets[j].bookmaker # NoBest.bookmaker

\* C15: negative answers are null, never a thrown fault: on every quote
\* list, the empty list and lists in which a slot has no usable price
\* included, calculate2WayArbitrage and calculate3WayArbitrage return null or
\* a complete result, null when a slot has no price, and
\* findArbitrageOpportunities completes.
C15_NullNeverFault ==
    /\ IsCalc2 =>
         /\ ~calculate2WayThrows(CalledOdds)
         /\ result = NullResult \/ IsCompleteResult(result, 2)
         /\ MaxPrice(CalledOdds, "odds1") = 0 \/ MaxPrice(CalledOdds, "odds2") = 0
              => result = NullResult
    /\ IsCalc3 =>
         /\ ~calculate3WayThrows(CalledOdds)
         /\ result = NullResult \/ IsCompleteResult(result, 3)
         /\ (\E slot \in {"odds1", "odds2", "draw"} : MaxPrice(CalledOdds, slot) = 0)
              => result = NullResult
    /\ IsFind =>
         /\ \A i \in 1..Len(matches) :
               /\ ~calculate2WayThrows(matches[i].odds)
               /\ ~calculate3WayThrows(matches[i].odds)
         /\ \A k \in 1..Len(result) : Len(result[k].bets) \in {2, 3}

\* calculate3WayArbitrage has returned null on quotes that price both teams
\* but not the draw
C15_Witness ==
    /\ IsCalc3
    /\ CalledOdds # <<>>
    /\ MaxPrice(CalledOdds, "draw") = 0
    /\ result = NullResult

\* the leg of a calculator result that belongs to a slot
SlotLeg(r, slot) ==
    CASE slot = "odds1" -> r.bets[1]
      [] slot = "draw" -> r.bets[2]
      [] slot = "odds2" -> r.bets[Len(r.bets)]

\* C17: in every calculator result each slot's leg carries the maximum of
\* that slot's odds over all quotes and the bookmaker of the first quote, in
\* list order, offering that maximum.
C17_BestPriceFirstWins ==
    /\ IsCalc2 /\ result.exists =>
         \A slot \in {"odds1", "odds2"} :
            /\ SlotLeg(result, slot).odds = MaxPrice(CalledOdds, slot)
            /\ SlotLeg(result, slot).bookmaker = FirstAtMax(CalledOdds, slot)
    /\ IsCalc3 /\ result.exists =>
         \A slot \in {"odds1", "draw", "odds2"} :
            /\ SlotLeg(result, slot).odds = MaxPrice(CalledOdds, slot)
            /\ SlotLeg(result, slot).bookmaker = FirstAtMax(CalledOdds, slot)

\* a 3-way result on two quotes that offer the same draw price: the draw
\* leg is the first quote's
C17_Witness ==
    /\ IsCalc3
    /\ result.exists
    /\ Len(CalledOdds) = 2
    /\ CalledOdds[1].draw_odds = CalledOdds[2].draw_odds
    /\ result.bets[2].bookmaker = CalledOdds[1].bookmaker

\* r is 100 * n / d rounded to the nearest integer (d > 0), for n too large
\* to be multiplied out
IsRoundedTimes100(r, n, d) == IsRounded(r - 100 * (n \div d), 100 * (n % d), d)

\* C18: in every calculator result profit_percentage is
\* (1 / T - 1) * 100 rounded to 2 decimals, T the sum of 1/bestOdds over the
\* 2 or 3 slots; an arbitrage whose unrounded profit is below 0.005 % is
\* reported with profit_percentage 0.
C18_ProfitRounded ==
    /\ IsCalc2 /\ result.exists =>
         LET a == MaxPrice(CalledOdds, "odds1")
             b == MaxPrice(CalledOdds, "odds2")
         IN /\ IsRounded(result.profit_percentage,
                         100 * a * b - 10000 * (a + b), a + b)
            \* unrounded profit < 0.005 %: 200 (ab - 100(a+b)) < a + b
            /\ 200 * (a * b - 100 * (a + b)) < a + b => result.profit_percentage = 0
    /\ IsCalc3 /\ result.exists =>
         LET a == MaxPrice(CalledOdds, "odds1")
             b == MaxPrice(CalledOdds, "odds2")
             d == MaxPrice(CalledOdds, "draw")
         \* 1/T = abd / (100 (ab + ad + bd))
         IN IsRoundedTimes100(result.profit_percentage + 10000,
                              a * b * d, a * b + a * d + b * d)

\* an arbitrage with a profit below 0.005 % has been reported at 0
C18_Witness ==
    /\ IsCalc2
    /\ result.exists
    /\ SumBelowOne2(MaxPrice(CalledOdds, "odds1"), MaxPrice(CalledOdds, "odds2"))
    /\ result.profit_percentage = 0

\* C19: in every calculator result each leg's stake_pct is
\* (1/odds of the leg) / T * 100 rounded to 2 decimals on its own, and the
\* legs' stake_pct sum to 100 within 0.005 per leg (0.01 for 2 legs, 0.015
\* for 3 legs; the sum is a whole number of hundredths).
C19_StakePctRounded ==
    /\ IsCalc2 /\ result.exists =>
         LET a == MaxPrice(CalledOdds, "odds1")
             b == MaxPrice(CalledOdds, "odds2")
         IN /\ IsRounded(result.bets[1].stake_pct, 10000 * b, a + b)
            /\ IsRounded(result.bets[2].stake_pct, 10000 * a, a + b)
            /\ 100 * Abs(result.bets[1].stake_pct + result.bets[2].stake_pct - 10000)
                 <= 100
    /\ IsCalc3 /\ result.exists =>
         LET a == MaxPrice(CalledOdds, "odds1")
             b == MaxPrice(CalledOdds, "odds2")
             d == MaxPrice(CalledOdds, "draw")
             s == a * b + a * d + b * d
         IN /\ IsRoundedTimes100(result.bets[1].stake_pct, 100 * b * d, s)
            /\ IsRoundedTimes100(result.bets[2].stake_pct, 100 * a * b, s)
            /\ IsRoundedTimes100(result.bets[3].stake_pct, 100 * a * d, s)
            /\ 100 * Abs(result.bets[1].stake_pct + result.bets[2].stake_pct
                           + result.bets[3].stake_pct - 10000) <= 150

\* a result whose rounded shares do not add up to exactly 100
C19_Witness ==
    /\ IsCalc2 \/ IsCalc3
    /\ result.exists
    /\ \/ Len(result.bets) = 2
          /\ result.bets[1].stake_pct + result.bets[2].stake_pct # 10000
       \/ Len(result.bets) = 3
          /\ result.bets[1].stake_pct + result.bets[2].stake_pct
               + result.bets[3].stake_pct # 10000

\* the quotes with every draw price removed
WithoutDraw(odds) ==
    [k \in 1..Len(odds) |-> [odds[k] EXCEPT !.draw_odds = NullPrice]]

\* the calculator's part of a leg
CalculatorLeg(bet) ==
    [outcome |-> bet.outcome, bookmaker |-> bet.bookmaker, odds |-> bet.odds,
     stake_pct |-> bet.stake_pct]

\* C20: findArbitrageOpportunities evaluates a has_draw = false match through
\* the 2-way calculator: exactly 2 legs [outcome1, outcome2], the same as on
\* the quotes without their draw prices; and a has_draw = true match through
\* the 3-way calculator: exactly 3 legs [outcome1, Draw, outcome2].  Soccer
\* is the only configured sport with has_draw = true.
C20_DispatchOnHasDraw ==
    /\ \A sport \in DOMAIN SPORTS_CONFIG :
          SPORTS_CONFIG[sport].has_draw <=> sport = "soccer"
    /\ IsFind =>
         \A i \in 1..Len(matches) : \A k \in 1..Len(result) :
            result[k].match = matches[i].name =>
              IF matches[i].has_draw
              THEN /\ Len(result[k].bets) = 3
                   /\ result[k].bets[1].outcome = "team1"
                   /\ result[k].bets[2].outcome = "Draw"
                   /\ result[k].bets[3].outcome = "team2"
                   /\ result[k].profit_percentage
                        = calculate3WayArbitrage(matches[i].odds).profit_percentage
              ELSE /\ Len(result[k].bets) = 2
                   /\ result[k].bets[1].outcome = "team1"
                   /\ result[k].bets[2].outcome = "team2"
                   /\ calculate2WayArbitrage(WithoutDraw(matches[i].odds)).exists
                   /\ result[k].profit_percentage
                        = calculate2WayArbitrage(WithoutDraw(matches[i].odds)).profit_percentage
                   /\ \A j \in 1..2 :
                        CalculatorLeg(result[k].bets[j])
                          = calculate2WayArbitrage(WithoutDraw(matches[i].odds)).bets[j]

\* one call has returned a 2-leg opportunity for a has_draw = false match
\* whose quotes carry draw prices, and a 3-leg one for a has_draw = true match
C20_Witness ==
    /\ IsFind
    /\ \E i \in 1..Len(matches) : \E k \in 1..Len(result) :
          /\ result[k].match = matches[i].name
          /\ ~matches[i].has_draw
          /\ ~NoDrawPrice(matches[i].odds)
          /\ Len(result[k].bets) = 2
    /\ \E k \in 1..Len(result) : Len(result[k].bets) = 3

---------------------------------------------------------------------------
(* Live data: one game of the odds API with any bookmakers' prices, fetched *)
(* and evaluated by getOpportunities calls that may overlap.                *)

\* the odds API lists one game, quoted by up to MaxQuotes bookmakers
LiveGames == {<<Game(1, o)>> : o \in QuoteLists}

LiveSports == {"soccer", "basketball"}

LiveInit ==
    /\ matches = <<>>
    /\ call = NoCall
    /\ result = <<>>
    /\ games \in LiveGames
    /\ cache = [sport \in DOMAIN SPORTS_CONFIG |-> NoEntry]
    /\ now = 0
    /\ pending = {}
    /\ nreq = 0
    /\ resp = NoResponse
    /\ log = <<>>
    /\ http = NoRequest

LiveNext ==
    \/ \E t \in Instants : Tick(t)
    \/ \E sport \in LiveSports, q \in RequestParams :
          GetStart(sport, q.minProfit, q.stake)
    \/ \E p \in pending, upstream \in Upstreams : GetFinish(p, upstream)

LiveSpec == LiveInit /\ [][LiveNext]_vars

\* C14: every opportunity returned for live data (scrapeOddsForSport, then
\* findArbitrageOpportunities) has legs with different bookmakers: its legs'
\* bookmaker values are not all the same.
C14_LegsAtDifferentBookmakers ==
    resp.source = "live" =>
      \A k \in 1..Len(resp.opportunities) :
         \E i, j \in 1..Len(resp.opportunities[k].bets) :
            resp.opportunities[k].bets[i].bookmaker
              # resp.opportunities[k].bets[j].bookmaker

---------------------------------------------------------------------------
(* Repeated engine calls: findArbitrageOpportunities called several times   *)
(* on one match list, with the id and detected_at it gives each             *)
(* opportunity (lines 314, 325).  The clock may advance between any two of  *)
(* its reads, within a call and between calls.                              *)

MaxCalls == 2       \* engine calls per behaviour

\* values of Math.random(), in hundredths
RandomValues == {25, 50}

\* Math.random().toString(36).substr(2, 9): 0 is "0", 0.25 is "0.9", 0.5 is
\* "0.i", 0.75 is "0.r"
RandomSuffix(r) ==
    CASE r = 0 -> ""
      [] r = 25 -> "9"
      [] r = 50 -> "i"
      [] r = 75 -> "r"

\* `arb_${Date.now()}_${Math.random().toString(36).substr(2, 9)}`
OpportunityId(t, r) == <<"arb", t, RandomSuffix(r)>>

\* the pushed record with the two fields Opportunity leaves out: the id
\* reads the clock at line 314 (Date.now()), detected_at reads it again at
\* line 325 (new Date())
Stamped(opp, idTime, r, detectedAt) ==
    [id |-> OpportunityId(idTime, r),
     match |-> opp.match,
     profit_percentage |-> opp.profit_percentage,
     total_stake |-> opp.total_stake,
     guaranteed_profit |-> opp.guaranteed_profit,
     bets |-> opp.bets,
     detected_at |-> detectedAt]

\* the instants the clock shows in the course of a call
CallInstants == {0, 1}

\* what the clock can return to 2n successive reads from now on
ClockReads(n) ==
    {clock \in [1..(2 * n) -> CallInstants] :
        /\ \A k \in 1..(2 * n) : clock[k] >= now
        /\ \A k \in 1..(2 * n - 1) : clock[k] <= clock[k + 1]}

\* match lists of one or two games, each an arbitrage under either flag
CallMatches == ListsOver(1, GameOdds) \cup ListsOver(2, GameOdds)

CallsInit ==
    /\ matches \in CallMatches
    /\ call = NoCall
    /\ result = <<>>
    /\ games = <<>>
    /\ cache = [sport \in DOMAIN SPORTS_CONFIG |-> NoEntry]
    /\ now = 0
    /\ pending = {}
    /\ nreq = 0
    /\ resp = NoResponse
    /\ log = <<>>
    /\ http = NoRequest

\* a slip in the declaration: the opportunities array lives outside the
\* function, so a call returns what the calls before it have found as well
FindCall_accumulating(minProfit, stake, randoms, clock) ==
    LET pushed == Collect(matches, minProfit, stake)
        stamped == [k \in 1..Len(pushed) |->
                      Stamped(pushed[k], clock[2 * k - 1], randoms[k], clock[2 * k])]
        sorted == SortByProfit(result \o stamped)
    IN /\ Len(randoms) = Len(pushed)
       /\ clock \in ClockReads(Len(pushed))
       /\ call' = [fn |-> "findArbitrageOpportunities",
                   minProfit |-> minProfit, stake |-> stake]
       /\ result' = sorted
       /\ log' = Append(log, [matches |-> matches, minProfit |-> minProfit,
                              stake |-> stake, result |-> sorted])
       /\ now' = IF Len(clock) = 0 THEN now ELSE clock[Len(clock)]
       /\ UNCHANGED <<matches, games, cache, pending, nreq, resp, http>>

\* one findArbitrageOpportunities call (lines 301-334).  randoms are the
\* values Math.random() returns to it and clock the values of its clock
\* reads, in the order the opportunities are pushed (lines 313-326): one
\* random and two clock reads per opportunity.  The list is sorted after the
\* loop (line 331).
FindCall(minProfit, stake, randoms, clock) ==
    LET pushed == Collect(matches, minProfit, stake)
        stamped == [k \in 1..Len(pushed) |->
                      Stamped(pushed[k], clock[2 * k - 1], randoms[k], clock[2 * k])]
        sorted == SortByProfit(stamped)
    IN /\ Len(randoms) = Len(pushed)
       /\ clock \in ClockReads(Len(pushed))
       /\ call' = [fn |-> "findArbitrageOpportunities",
                   minProfit |-> minProfit, stake |-> stake]
       /\ result' = sorted
       /\ log' = Append(log, [matches |-> matches, minProfit |-> minProfit,
                              stake |-> stake, result |-> sorted])
       /\ now' = IF Len(clock) = 0 THEN now ELSE clock[Len(clock)]
       /\ UNCHANGED <<matches, games, cache, pending, nreq, resp, http>>

\* time passes between calls as it does within them: the first clock read of
\* a call may return any later instant
CallsNext ==
    /\ Len(log) < MaxCalls
    /\ \E q \in RequestParams :
          \E randoms \in [1..Len(Collect(matches, q.minProfit, q.stake)) -> RandomValues],
             clock \in ClockReads(Len(Collect(matches, q.minProfit, q.stake))) :
                FindCall(q.minProfit, q.stake, randoms, clock)

CallsSpec == CallsInit /\ [][CallsNext]_vars

\* C11: any two distinct opportunities produced by
\* findArbitrageOpportunities, within one call or across calls, have
\* different id values.
C11_IdsUnique ==
    \A c1, c2 \in 1..Len(log) :
       \A k1 \in 1..Len(log[c1].result) : \A k2 \in 1..Len(log[c2].result) :
          <<c1, k1>> # <<c2, k2>> => log[c1].result[k1].id # log[c2].result[k2].id

\* an opportunity without its id and detected_at
Unstamped(opp) ==
    [match |-> opp.match,
     profit_percentage |-> opp.profit_percentage,
     total_stake |-> opp.total_stake,
     guaranteed_profit |-> opp.guaranteed_profit,
     bets |-> opp.bets]

UnstampedList(opps) == [k \in 1..Len(opps) |-> Unstamped(opps[k])]

\* Engine calls on changing inputs: between two calls the calling layer may
\* hand over another match list, and the cache may hold what an earlier
\* getOpportunities call for basketball has written.

MaxInvocations == 3     \* engine calls per behaviour

\* the match lists the calling layer passes: two games without a draw, and
\* the second of them under the first one's name
RepeatMatches ==
    LET plain == CHOOSE o \in GameOdds :
                    \A i \in 1..Len(o) : o[i].draw_odds = NullPrice
        other == CHOOSE o \in GameOdds : o # plain
    IN {<<Match(1, FALSE, plain), Match(2, FALSE, other)>>,
        <<Match(1, FALSE, other)>>}

\* the cache before the calls: empty, or with the entry that
\* getOpportunities('basketball', 0, 100) writes at instant 0 when the odds
\* API lists the two games of RepeatMatches (basketball has no draw, so the
\* scraped matches carry has_draw = false)
RepeatCaches ==
    LET empty == [sport \in DOMAIN SPORTS_CONFIG |-> NoEntry]
    IN {empty,
        [empty EXCEPT !["basketball"] =
           [present |-> TRUE,
            opportunities |->
              findArbitrageOpportunities(CHOOSE ms \in RepeatMatches : Len(ms) = 2,
                                         0, 100),
            timestamp |-> 0]]}

RepeatInit ==
    /\ matches \in RepeatMatches
    /\ call = NoCall
    /\ result = <<>>
    /\ games = <<>>
    /\ cache \in RepeatCaches
    /\ now = 0
    /\ pending = {}
    /\ nreq = 0
    /\ resp = NoResponse
    /\ log = <<>>
    /\ http = NoRequest

\* the calling layer takes another list for its next call
Pass(ms) ==
    /\ Len(log) < MaxInvocations
    /\ ms # matches
    /\ matches' = ms
    /\ UNCHANGED <<call, result, serverVars, routeVars>>

\* the clock does not advance within a call here (CallsSpec has that)
RepeatNext ==
    \/ \E ms \in RepeatMatches : Pass(ms)
    \/ /\ Len(log) < MaxInvocations
       /\ \E q \in RequestParams, t \in CallInstants :
             \E randoms \in [1..Len(Collect(matches, q.minProfit, q.stake))
                               -> RandomValues] :
                FindCall(q.minProfit, q.stake, randoms,
                         [k \in 1..(2 * Len(randoms)) |-> t])

RepeatSpec == RepeatInit /\ [][RepeatNext]_vars

---------------------------------------------------------------------------
(* The middleware chain of the Express app (lines 469-1173): a request goes *)
(* through the global paymentMiddleware (registered at line 500, before the *)
(* routes), then through the matching route's apiKeyAuth and handler.       *)
(* paymentMiddleware is @x402/express: on a route of its table it answers   *)
(* 402 unless the request carries a payment it can verify, and only then    *)
(* calls next().                                                            *)

\* VALID_API_KEYS (lines 45-49) with no API_KEY_n in the environment
VALID_API_KEYS == {"demo_key_12345"}

\* the routes of the paymentMiddleware table (lines 503-525), by the route
\* that serves them, and a free one
ProtectedRoutes ==
    {"POST /api/opportunities/sport", "GET /api/opportunities/sport",
     "GET /api/opportunities/sport/:sport"}
FreeRoutes == {"GET /health"}

\* the routes whose handler checks the sport against validSports
ValidatingRoutes ==
    {"POST /api/opportunities/sport", "GET /api/opportunities/sport/:sport"}

\* how `await fetch` (line 231) and `await response.json()` (line 243) end
FetchOutcomes == {"notOk", "throws", "ok"}
JsonOutcomes == {"throws", "games"}

\* X-API-Key and payment headers a request may carry
ApiKeyHeaders == {"none", "demo_key_12345", "wrong_key"}
PaymentHeaders == {"none", "valid", "invalid"}

\* the requests: the health route reads neither the sport nor the
\* parameters, so its requests carry the defaults
Requests ==
    [route : ProtectedRoutes, apiKey : ApiKeyHeaders,
     payment : PaymentHeaders, sport : RequestSports, params : RequestParams]
    \cup
    [route : FreeRoutes, apiKey : ApiKeyHeaders, payment : PaymentHeaders,
     sport : {"Soccer"}, params : {[minProfit |-> 0, stake |-> 100]}]

NoReply == [status |-> 0]

HttpInit ==
    /\ matches = <<>>
    /\ call = NoCall
    /\ result = <<>>
    /\ games \in GameLists(0) \cup GameLists(1)
    /\ cache = [sport \in DOMAIN SPORTS_CONFIG |-> NoEntry]
    /\ now = 0
    /\ pending = {}
    /\ nreq = 0
    /\ resp = NoResponse
    /\ log = <<>>
    /\ http = NoRequest

\* a request arrives (cors, express.json and the logger pass it on)
Arrive(r) ==
    /\ Len(http) < MaxRequests
    /\ http' = Append(http, [stage |-> "paymentMiddleware", req |-> r,
                             authMethod |-> "undefined", paid |-> FALSE,
                             handled |-> FALSE, reply |-> NoReply])
    /\ UNCHANGED <<engineVars, serverVars, log>>

\* the global x402 middleware (lines 500-529)
PaymentMiddleware(k) ==
    /\ http[k].stage = "paymentMiddleware"
    /\ http' = [http EXCEPT ![k] =
                  IF http[k].req.route \notin ProtectedRoutes
                  THEN [http[k] EXCEPT !.stage = "route"]
                  ELSE IF http[k].req.payment = "valid"
                  THEN [http[k] EXCEPT !.stage = "route", !.paid = TRUE]
                  ELSE [http[k] EXCEPT !.stage = "done",
                                       !.reply = [status |-> 402]]]
    /\ UNCHANGED <<engineVars, serverVars, log>>

\* apiKeyAuth (lines 487-495), run by the three opportunities routes
apiKeyAuth(k) ==
    /\ http[k].stage = "route"
    /\ http[k].req.route \in ProtectedRoutes
    /\ http' = [http EXCEPT ![k] =
                  IF /\ http[k].req.apiKey # "none"
                     /\ http[k].req.apiKey \in VALID_API_KEYS
                  THEN [http[k] EXCEPT !.stage = "handler", !.authMethod = "api_key"]
                  ELSE [http[k] EXCEPT !.stage = "handler"]]
    /\ UNCHANGED <<engineVars, serverVars, log>>

\* res.json of an opportunities route (lines 1025-1036, 1089-1100,
\* 1155-1166) for what getOpportunities resolved to
OpportunitiesReply(sport, got, authMethod) ==
    [status |-> 200,
     sport |-> ToLowerCase(sport),
     count |-> Len(got.opportunities),
     opportunities |-> got.opportunities,
     data_source |-> got.source,
     auth_method |-> authMethod]

\* the getOpportunities call of request k, as far as it has got: waiting for
\* the fetch or for the body, scraped (scrapeOddsForSport has returned
\* matches), or resolved (getOpportunities has returned got)
HttpCall(k, req, at) ==
    [id |-> k, sport |-> ToLowerCase(req.sport),
     minProfit |-> req.params.minProfit, stake |-> req.params.stake, at |-> at]

Scraped(p, ms) ==
    [id |-> p.id, sport |-> p.sport, minProfit |-> p.minProfit, stake |-> p.stake,
     at |-> "scraped", matches |-> ms]

Resolved(p, got) ==
    [id |-> p.id, sport |-> p.sport, minProfit |-> p.minProfit, stake |-> p.stake,
     at |-> "resolved", got |-> got]

\* the handler of an opportunities route up to `await getOpportunities`
\* (lines 950-989, 1049-1060, 1110-1126), with getOpportunities up to its
\* return or its own await (lines 339-371) and scrapeOddsForSport up to its
\* return or `await fetch` (lines 214-231).  The handler waits for the
\* promise also when the cache has answered.  keySet: ODDS_API_KEY is set.
\* The catch branch (status 500) needs a sport that is not a string and is
\* not reached.
OpportunitiesHandler(k, keySet) ==
    LET req == http[k].req
        sportLower == ToLowerCase(req.sport)
        authMethod == IF http[k].authMethod = "undefined" THEN "x402"
                      ELSE http[k].authMethod
        hit == [source |-> "cache", sport |-> sportLower,
                minProfit |-> req.params.minProfit, stake |-> req.params.stake,
                opportunities |->
                  ServeFromCache(cache[sportLower].opportunities,
                                 req.params.minProfit, req.params.stake),
                cacheAge |-> CacheAgeMinutes(now - cache[sportLower].timestamp)]
    IN /\ http[k].stage = "handler"
       /\ IF /\ req.route \in ValidatingRoutes
             /\ sportLower \notin DOMAIN SPORTS_CONFIG
          THEN /\ http' = [http EXCEPT ![k] =
                             [http[k] EXCEPT !.stage = "done", !.handled = TRUE,
                                             !.authMethod = authMethod,
                                             !.reply = [status |-> 400]]]
               /\ UNCHANGED <<resp, pending, nreq>>
          ELSE /\ http' = [http EXCEPT ![k] =
                             [http[k] EXCEPT !.stage = "await", !.handled = TRUE,
                                             !.authMethod = authMethod]]
               /\ nreq' = nreq + 1
               /\ IF isCacheValid(sportLower)
                  THEN /\ pending' = pending \cup
                             {Resolved(HttpCall(k, req, "resolved"), hit)}
                       /\ resp' = hit
                  ELSE IF sportLower \notin DOMAIN SPORTS_CONFIG \/ ~keySet
                  THEN /\ pending' = pending \cup
                             {Scraped(HttpCall(k, req, "scraped"),
                                      scrapeOddsForSport(sportLower, [ok |-> FALSE]))}
                       /\ UNCHANGED resp
                  ELSE /\ pending' = pending \cup {HttpCall(k, req, "fetch")}
                       /\ UNCHANGED resp
       /\ UNCHANGED <<engineVars, games, cache, now, log>>

\* the fetch of the call p settles (lines 231-243): a non-OK status and an
\* exception make scrapeOddsForSport return [], an OK response is read as
\* JSON
FetchDone(p, outcome) ==
    /\ p \in pending
    /\ p.at = "fetch"
    /\ pending' = (pending \ {p}) \cup
          {IF outcome = "ok"
           THEN [p EXCEPT !.at = "json"]
           ELSE Scraped(p, scrapeOddsForSport(p.sport, [ok |-> FALSE]))}
    /\ UNCHANGED <<engineVars, games, cache, now, nreq, resp, routeVars>>

\* response.json() of the call p settles (lines 243-295): scrapeOddsForSport
\* returns the converted games, or [] on an exception
JsonDone(p, outcome) ==
    /\ p \in pending
    /\ p.at = "json"
    /\ pending' = (pending \ {p}) \cup
          {Scraped(p, scrapeOddsForSport(p.sport,
                         IF outcome = "games" THEN [ok |-> TRUE, games |-> games]
                         ELSE [ok |-> FALSE]))}
    /\ UNCHANGED <<engineVars, games, cache, now, nreq, resp, routeVars>>

\* getOpportunities after `await scrapeOddsForSport` (lines 371-393): the
\* mock fallback, or the cache write, and the return
CallResumes(p) ==
    /\ p \in pending
    /\ p.at = "scraped"
    /\ LET got == AfterScrape(p, p.matches)
       IN /\ pending' = (pending \ {p}) \cup {Resolved(p, got.resp)}
          /\ resp' = got.resp
          /\ cache' = got.cache
    /\ UNCHANGED <<engineVars, games, now, nreq, routeVars>>

\* the handler after `await getOpportunities` (lines 989-1036, 1060-1100,
\* 1126-1166): res.json
OpportunitiesResume(k) ==
    /\ http[k].stage = "await"
    /\ \E p \in pending :
          /\ p.id = k
          /\ p.at = "resolved"
          /\ pending' = pending \ {p}
          /\ http' = [http EXCEPT ![k] =
                        [http[k] EXCEPT !.stage = "done",
                                        !.reply = OpportunitiesReply(
                                                     http[k].req.sport, p.got,
                                                     http[k].authMethod)]]
    /\ UNCHANGED <<engineVars, games, cache, now, nreq, resp, log>>

\* GET /health (line 903)
HealthHandler(k) ==
    /\ http[k].stage = "route"
    /\ http[k].req.route \in FreeRoutes
    /\ http' = [http EXCEPT ![k] =
                  [http[k] EXCEPT !.stage = "done", !.handled = TRUE,
                                  !.reply = [status |-> 200]]]
    /\ UNCHANGED <<engineVars, serverVars, log>>

HttpNext ==
    \/ \E r \in Requests : Arrive(r)
    \/ \E k \in 1..Len(http) : PaymentMiddleware(k)
    \/ \E k \in 1..Len(http) : apiKeyAuth(k)
    \/ \E k \in 1..Len(http), keySet \in BOOLEAN : OpportunitiesHandler(k, keySet)
    \/ \E p \in pending, outcome \in FetchOutcomes : FetchDone(p, outcome)
    \/ \E p \in pending, outcome \in JsonOutcomes : JsonDone(p, outcome)
    \/ \E p \in pending : CallResumes(p)
    \/ \E k \in 1..Len(http) : OpportunitiesResume(k)
    \/ \E k \in 1..Len(http) : HealthHandler(k)

HttpSpec == HttpInit /\ [][HttpNext]_vars

\* C12: a request to a protected opportunities endpoint with a valid
\* X-API-Key header and no x402 payment reaches the route handler and is
\* answered with auth_method = 'api_key'.
C12_ApiKeyWithoutPayment ==
    \A k \in 1..Len(http) :
       /\ http[k].stage = "done"
       /\ http[k].req.route \in ProtectedRoutes
       /\ http[k].req.apiKey \in VALID_API_KEYS
       /\ http[k].req.payment = "none"
       => /\ http[k].handled
          /\ ~http[k].paid
          /\ http[k].reply.status # 402
          /\ http[k].reply.status = 200 => http[k].reply.auth_method = "api_key"

---------------------------------------------------------------------------
\* Stake amounts and returns of an opportunity

\* C21: every leg of an opportunity carries stake_amount = round(totalStake *
\* stake_pct / 100, 2) and potential_return = round(stake_amount * odds, 2),
\* the return being computed from the already rounded stake_amount.
C21_ReturnFromRoundedStake ==
    IsFind =>
      \A k \in 1..Len(result) : \A j \in 1..Len(result[k].bets) :
         LET bet == result[k].bets[j]
         IN /\ IsRounded(bet.stake_amount, call.stake * bet.stake_pct, 100)
            /\ IsRounded(bet.potential_return, bet.stake_amount * bet.odds, 100)


\* C22: every opportunity returned from live data or from the cache carries
\* total_stake equal to the stake of the current request and guaranteed_profit
\* = round(total_stake * profit_percentage / 100, 2) for that stake.
C22_GuaranteedProfitForRequestedStake ==
    resp.source \in {"cache", "live"} =>
      \A k \in 1..Len(resp.opportunities) :
         LET opp == resp.opportunities[k]
         IN /\ opp.total_stake = resp.stake
            /\ IsRounded(opp.guaranteed_profit,
                         resp.stake * opp.profit_percentage, 100)

\* a cache hit has answered a request for a stake of 50 with an opportunity
\* whose cached guaranteed profit, taken at a stake of 100, is another amount
C22_Witness ==
    /\ resp.source = "cache"
    /\ resp.stake = 50
    /\ \E k \in 1..Len(resp.opportunities) :
          \E c \in 1..Len(cache[resp.sport].opportunities) :
             /\ cache[resp.sport].opportunities[c].match = resp.opportunities[k].match
             /\ cache[resp.sport].opportunities[c].total_stake = 100
             /\ cache[resp.sport].opportunities[c].guaranteed_profit
                  # resp.opportunities[k].guaranteed_profit


---------------------------------------------------------------------------
\* The three protected routes

\* C23: the three protected routes differ only in where the sport is read
\* from: each answers a sport outside soccer, basketball, tennis, nfl, mlb
\* with a 400 error and no opportunities, whichever route carried it.
C23_InvalidSportRejectedOnEveryRoute ==
    \A k \in 1..Len(http) :
       /\ http[k].stage = "done"
       /\ http[k].handled
       /\ http[k].req.route \in ProtectedRoutes
       /\ ToLowerCase(http[k].req.sport) \notin DOMAIN SPORTS_CONFIG
       => /\ http[k].reply.status = 400
          /\ "opportunities" \notin DOMAIN http[k].reply


---------------------------------------------------------------------------
(* scrapeOddsForSport on the raw answer of the odds API: every game lists   *)
(* its bookmakers, a bookmaker may lack the h2h market or one of the        *)
(* outcomes.  The function is async: it gives control back at `await fetch` *)
(* and at `await response.json()`.                                          *)

MaxBookmakers == 3    \* bookmakers per game of the raw answer

\* what a bookmaker of the raw answer holds: no h2h market (or one without
\* outcomes), an h2h market without the home or the away outcome, or a
\* complete one with or without a Draw outcome
BookmakerKinds == {"noMarket", "noHome", "noAway", "noDraw", "withDraw"}

\* the bookmaker at position i of a game; an absent outcome is NullPrice
Bookmaker(i, kind) ==
    [title |-> BookmakerNames[i],
     h2h |-> kind # "noMarket",
     home |-> IF kind \in {"noMarket", "noHome"} THEN NullPrice ELSE 200 + i,
     away |-> IF kind \in {"noMarket", "noAway"} THEN NullPrice ELSE 180 + i,
     draw |-> IF kind = "withDraw" THEN 350 ELSE NullPrice]

RECURSIVE BookmakerListsOfLen(_)
BookmakerListsOfLen(n) ==
    IF n = 0 THEN {<<>>}
    ELSE {Append(l, Bookmaker(n, kind)) :
            l \in BookmakerListsOfLen(n - 1), kind \in BookmakerKinds}

BookmakerLists == UNION {BookmakerListsOfLen(n) : n \in 0..MaxBookmakers}

RawGame(i, bookmakers) == [name |-> MatchNames[i], bookmakers |-> bookmakers]

\* the raw answers: no game, one game, or two games of which the second has
\* two bookmakers
RawFeeds ==
    {<<>>} \cup {<<RawGame(1, b)>> : b \in BookmakerLists}
           \cup {<<RawGame(1, b), RawGame(2, c)>> :
                   b \in BookmakerLists, c \in BookmakerListsOfLen(2)}

\* lines 256-273: the quotes pushed for the bookmakers of one game
RECURSIVE MatchOdds(_)
MatchOdds(bookmakers) ==
    IF bookmakers = <<>> THEN <<>>
    ELSE LET n == Len(bookmakers)
             bookmaker == bookmakers[n]
             before == MatchOdds(SubSeq(bookmakers, 1, n - 1))
         IN IF ~bookmaker.h2h THEN before
            ELSE IF bookmaker.home = NullPrice \/ bookmaker.away = NullPrice
            THEN before
            ELSE Append(before, [bookmaker |-> bookmaker.title,
                                 odds1 |-> bookmaker.home,
                                 odds2 |-> bookmaker.away,
                                 draw_odds |-> bookmaker.draw])

\* lines 253-274: the games of the raw answer after the bookmaker loop
ReadGames(raw) ==
    [i \in 1..Len(raw) |-> [name |-> raw[i].name,
                            odds |-> MatchOdds(raw[i].bookmakers)]]

ScrapeSports == {"soccer", "basketball", "cricket"}

\* the call record of a scrape that has returned
Returned(sport, ok) ==
    [fn |-> "scrapeOddsForSport", sport |-> sport, stage |-> "returned", ok |-> ok]

ScrapeInit ==
    /\ matches = <<>>
    /\ call = NoCall
    /\ result = <<>>
    /\ games \in RawFeeds
    /\ cache = [sport \in DOMAIN SPORTS_CONFIG |-> NoEntry]
    /\ now = 0
    /\ pending = {}
    /\ nreq = 0
    /\ resp = NoResponse
    /\ log = <<>>
    /\ http = NoRequest

\* scrapeOddsForSport up to `await fetch` (lines 214-231): an unknown sport
\* and an unset ODDS_API_KEY return [] at once
ScrapeStart(sport, keySet) ==
    /\ call = NoCall
    /\ IF sport \notin DOMAIN SPORTS_CONFIG \/ ~keySet
       THEN /\ call' = Returned(sport, FALSE)
            /\ matches' = scrapeOddsForSport(sport, [ok |-> FALSE])
       ELSE /\ call' = [fn |-> "scrapeOddsForSport", sport |-> sport,
                        stage |-> "fetch", ok |-> FALSE]
            /\ UNCHANGED matches
    /\ UNCHANGED <<result, serverVars, routeVars>>

\* the fetch settles (lines 231-243): a non-OK status and an exception return
\* [], an OK response is read as JSON
FetchSettles(outcome) ==
    /\ call.fn = "scrapeOddsForSport"
    /\ call.stage = "fetch"
    /\ IF outcome = "ok"
       THEN /\ call' = [call EXCEPT !.stage = "json"]
            /\ UNCHANGED matches
       ELSE /\ call' = Returned(call.sport, FALSE)
            /\ matches' = scrapeOddsForSport(call.sport, [ok |-> FALSE])
    /\ UNCHANGED <<result, serverVars, routeVars>>

\* response.json() settles (lines 243-295): the games are converted, an
\* exception returns []
JsonSettles(outcome) ==
    /\ call.fn = "scrapeOddsForSport"
    /\ call.stage = "json"
    /\ IF outcome = "games"
       THEN /\ call' = Returned(call.sport, TRUE)
            /\ matches' = scrapeOddsForSport(call.sport,
                             [ok |-> TRUE, games |-> ReadGames(games)])
       ELSE /\ call' = Returned(call.sport, FALSE)
            /\ matches' = scrapeOddsForSport(call.sport, [ok |-> FALSE])
    /\ UNCHANGED <<result, serverVars, routeVars>>

\* time passes while the scrape awaits, as it does before and after
ScrapeNext ==
    \/ \E t \in CallInstants : Tick(t)
    \/ \E sport \in ScrapeSports, keySet \in BOOLEAN : ScrapeStart(sport, keySet)
    \/ \E outcome \in FetchOutcomes : FetchSettles(outcome)
    \/ \E outcome \in JsonOutcomes : JsonSettles(outcome)

ScrapeSpec == ScrapeInit /\ [][ScrapeNext]_vars

\* a scrape has returned
IsScrape == call.fn = "scrapeOddsForSport" /\ call.stage = "returned"

\* the positions of the bookmakers of a raw game that have an h2h market with
\* both the home and the away outcome
Usable(game) ==
    {i \in 1..Len(game.bookmakers) :
        /\ game.bookmakers[i].h2h
        /\ game.bookmakers[i].home # NullPrice
        /\ game.bookmakers[i].away # NullPrice}

\* the raw games with at least 2 usable bookmakers
Kept == {i \in 1..Len(games) : Cardinality(Usable(games[i])) >= 2}

\* C24: every match scrapeOddsForSport passes on has at least 2 quotes, each
\* quote has its odds1 and odds2 from one bookmaker's h2h market of that game,
\* and has_draw is the has_draw configured for the sport; a game with fewer
\* than 2 usable bookmakers is dropped, the others are passed on in order.
C24_ScrapedMatchesWellFormed ==
    IsScrape =>
      /\ \A k \in 1..Len(matches) :
            /\ Len(matches[k].odds) >= 2
            /\ matches[k].has_draw = SPORTS_CONFIG[call.sport].has_draw
            /\ \E i \in Kept :
                  /\ games[i].name = matches[k].name
                  /\ Len(matches[k].odds) = Cardinality(Usable(games[i]))
                  /\ \A q \in 1..Len(matches[k].odds) :
                        \E b \in Usable(games[i]) :
                           LET bookmaker == games[i].bookmakers[b]
                               quote == matches[k].odds[q]
                           IN /\ quote.bookmaker = bookmaker.title
                              /\ quote.odds1 = bookmaker.home
                              /\ quote.odds2 = bookmaker.away
                              /\ quote.draw_odds = bookmaker.draw
      /\ \A k, l \in 1..Len(matches) : k # l => matches[k].name # matches[l].name
      /\ Len(matches) <= Cardinality(Kept)
      /\ call.ok /\ call.sport \in DOMAIN SPORTS_CONFIG
           => Len(matches) = Cardinality(Kept)

\* a scrape has dropped one game of the answer and kept the other, leaving
\* out one of the kept game's bookmakers
C24_Witness ==
    /\ IsScrape
    /\ Len(games) = 2
    /\ Len(matches) = 1
    /\ \E i \in Kept : /\ games[i].name = matches[1].name
                       /\ Len(matches[1].odds) < Len(games[i].bookmakers)
    /\ \E i \in 1..Len(games) : i \notin Kept /\ Len(games[i].bookmakers) >= 1


---------------------------------------------------------------------------
\* What getOpportunities returns

\* C25: every opportunity getOpportunities returns, from live data, from the
\* cache or from the mock fallback, passes the arbitrage test: the sum of
\* 1/odds over its bets is strictly below 1.
C25_ReturnedOpportunitiesAreArbitrage ==
    resp.source \in {"live", "cache", "mock"} =>
      \A k \in 1..Len(resp.opportunities) :
         LET bets == resp.opportunities[k].bets
         IN IF Len(bets) = 2
            THEN SumBelowOne2(bets[1].odds, bets[2].odds)
            ELSE /\ Len(bets) = 3
                 /\ SumBelowOne3(bets[1].odds, bets[3].odds, bets[2].odds)


---------------------------------------------------------------------------
(* getOpportunities with whatever the request layer can pass: min_profit    *)
(* is parseFloat of the query string, so it can be negative or NaN.         *)

\* parseFloat(req.query.min_profit) and parseFloat(req.query.stake) for the
\* query strings 'abc', '-1', absent and '2', and for absent and '50'
ParsedMinProfits == {NaN, -100, 0, 200}
ParsedStakes == {100, 50}

WarmNext ==
    \/ \E t \in Instants : Tick(t)
    \/ \E sport \in LiveSports, minProfit \in ParsedMinProfits,
          stake \in ParsedStakes :
             GetStart(sport, minProfit, stake)
    \/ \E p \in pending, upstream \in Upstreams : GetFinish(p, upstream)

WarmSpec == ServerInit /\ [][WarmNext]_vars

\* C26: what a cache hit returns equals findArbitrageOpportunities(matches,
\* minProfit, stake) on the matches that filled the entry, in the same order,
\* for every minProfit and stake the request layer can pass (negative, zero
\* and unparsable values included), and the hit leaves the entry as it was
\* filled.
C26_CacheHitEqualsFreshResult ==
    resp.source = "cache" =>
      LET ms == scrapeOddsForSport(resp.sport, [ok |-> TRUE, games |-> games])
      IN /\ resp.opportunities
              = findArbitrageOpportunities(ms, resp.minProfit, resp.stake)
         /\ cache[resp.sport].opportunities = findArbitrageOpportunities(ms, 0, 100)


---------------------------------------------------------------------------
\* The cache over time and under failing fetches (ServerSpec)

\* the sport has a cache entry younger than 30 minutes
FreshEntry(sport) ==
    /\ sport \in DOMAIN cache
    /\ cache[sport].present
    /\ now - cache[sport].timestamp < 30 * TicksPerMinute

\* C27: a request is served from the cache only if an entry for the
\* lower-cased sport exists and is strictly younger than 30 minutes (the age
\* it reports, rounded to the nearest minute, is then at most 30); once the
\* age has reached 30 minutes (or there is no entry) the request issues an
\* upstream fetch; a request leaves the cache as it is, and an entry changes
\* only when a fetch for its own sport completes with live data.
C27_StalenessPolicy ==
    /\ [](resp.source = "cache" => resp.cacheAge <= 30)
    /\ [][nreq' = nreq + 1 =>
            /\ cache' = cache
            /\ \/ /\ pending' = pending
                  /\ resp'.source = "cache"
                  /\ FreshEntry(resp'.sport)
                  /\ 2 * (TicksPerMinute * resp'.cacheAge
                             - (now - cache[resp'.sport].timestamp))
                       \in (1 - TicksPerMinute)..TicksPerMinute
               \/ /\ resp' = resp
                  /\ \E p \in pending' \ pending :
                        /\ pending' = pending \cup {p}
                        /\ ~FreshEntry(p.sport)]_vars
    /\ [][\A sport \in DOMAIN cache :
            cache'[sport] # cache[sport] =>
               /\ resp'.source = "live"
               /\ resp'.sport = sport
               /\ \E p \in pending \ pending' : p.sport = sport]_vars

\* a request has issued a fetch for a sport whose cache entry is exactly 30
\* minutes old
C27_Witness ==
    \E p \in pending :
       /\ p.sport \in DOMAIN cache
       /\ cache[p.sport].present
       /\ now - cache[p.sport].timestamp = 30 * TicksPerMinute


\* the answer of the odds API holds a game that scrapeOddsForSport keeps
SomeGameUsable == \E i \in 1..Len(games) : Len(games[i].odds) >= 2

\* C28: when the scrape yields no matches (unknown sport, failed fetch, no
\* usable game) getOpportunities resolves with the mock opportunities, flagged
\* as mock, and leaves the cache exactly as it was; only an answer with
\* matches is returned as live data.
C28_FailedScrapeFallsBackToMock ==
    /\ [](resp.source = "mock" =>
            resp.opportunities
              = generateMockOpportunities(resp.sport, resp.minProfit, resp.stake))
    /\ [](resp.source = "live" => Len(resp.matches) > 0)
    /\ [][pending' # pending /\ nreq' = nreq =>
            \E p \in pending \ pending' :
               /\ resp'.sport = p.sport
               /\ \/ resp'.source = "mock" /\ cache' = cache
                  \/ /\ resp'.source = "live"
                     /\ p.sport \in DOMAIN SPORTS_CONFIG
                     /\ SomeGameUsable
               /\ p.sport \notin DOMAIN SPORTS_CONFIG \/ ~SomeGameUsable
                    => resp'.source = "mock"]_vars

\* a call has fallen back to mock data while the cache held an expired entry
\* for the sport, and the entry is still there
C28_Witness ==
    /\ resp.source = "mock"
    /\ resp.sport \in DOMAIN cache
    /\ cache[resp.sport].present
    /\ now - cache[resp.sport].timestamp >= 30 * TicksPerMinute


\* C29: single flight.  While several requests for one sport are in progress
\* with the cache entry missing or expired, at most one upstream fetch for
\* that sport is outstanding; the other requests are answered from its result.
C29_SingleFlight ==
    \A p, q \in pending : p.sport = q.sport => p = q


---------------------------------------------------------------------------
(* Overlapping getOpportunities calls while the data of the odds API        *)
(* changes: a fetch is issued, the API answers it with the games it lists   *)
(* at that moment, and the call resumes when the answer has arrived.  log   *)
(* records the completed fetches in the order of completion.                *)

\* what the odds API can list: one game under either pair of quotes
RaceFeeds == {<<Game(1, o)>> : o \in GameOdds}

RaceInit ==
    /\ matches = <<>>
    /\ call = NoCall
    /\ result = <<>>
    /\ games \in RaceFeeds
    /\ cache = [sport \in DOMAIN SPORTS_CONFIG |-> NoEntry]
    /\ now = 0
    /\ pending = {}
    /\ nreq = 0
    /\ resp = NoResponse
    /\ log = <<>>
    /\ http = NoRequest

\* the odds API lists other prices
Publish(feed) ==
    /\ feed # games
    /\ games' = feed
    /\ UNCHANGED <<engineVars, cache, now, pending, nreq, resp, routeVars>>

\* the odds API answers the fetch of the call p (line 231)
Answer(p, upstream) ==
    /\ p \in pending
    /\ "upstream" \notin DOMAIN p
    /\ pending' = (pending \ {p}) \cup
          {[id |-> p.id, sport |-> p.sport, minProfit |-> p.minProfit,
            stake |-> p.stake, upstream |-> upstream]}
    /\ UNCHANGED <<engineVars, games, cache, now, nreq, resp, routeVars>>

\* the call p resumes after its await (lines 371-393)
Resume(p) ==
    /\ p \in pending
    /\ "upstream" \in DOMAIN p
    /\ LET ms == scrapeOddsForSport(p.sport, p.upstream)
           got == AfterScrape(p, ms)
       IN /\ pending' = pending \ {p}
          /\ resp' = got.resp
          /\ cache' = got.cache
          /\ log' = Append(log, [id |-> p.id, sport |-> p.sport,
                                 wrote |-> Len(ms) > 0,
                                 entry |-> got.cache[p.sport]])
    /\ UNCHANGED <<engineVars, games, now, nreq, http>>

RaceNext ==
    \/ \E t \in Instants : Tick(t)
    \/ \E feed \in RaceFeeds : Publish(feed)
    \/ \E sport \in LiveSports : GetStart(sport, 0, 100)
    \/ \E p \in pending, upstream \in Upstreams : Answer(p, upstream)
    \/ \E p \in pending : Resume(p)

RaceSpec == RaceInit /\ [][RaceNext]_vars

\* the completed fetches for a sport that wrote the cache
Wrote(sport) == {k \in 1..Len(log) : log[k].sport = sport /\ log[k].wrote}

\* C30: no stale overwrite.  Once all overlapping calls for a sport have
\* completed, the cache entry holds the opportunities of the fetch that was
\* issued last, and the timestamp of the entry never decreases from one
\* write to the next.
C30_NoStaleOverwrite ==
    /\ pending = {} =>
         \A sport \in DOMAIN cache :
            Wrote(sport) # {} =>
               LET last == CHOOSE k \in Wrote(sport) :
                              \A j \in Wrote(sport) : log[j].id <= log[k].id
               IN cache[sport].opportunities = log[last].entry.opportunities
    /\ \A sport \in DOMAIN cache : \A j, k \in Wrote(sport) :
          j < k => log[j].entry.timestamp <= log[k].entry.timestamp

===========================================================================
